---- MODULE Spec2Model ----
(***************************************************************************)
(* State-machine model of the mine.js world server: the hub actor          *)
(* (server/core/network/server.rs) and the per-world handlers              *)
(* (server/core/engine/world.rs).                                          *)
(*                                                                         *)
(* The hub is one actor: it takes one message from its mailbox, runs the   *)
(* handler to completion and returns.  `pc` is the actor's position,       *)
(* `pending` the message being dispatched, `trace` the effects of the      *)
(* handler (or ticker) that ran last, in program order.                    *)
(*                                                                         *)
(* The chunk engine, the registry and the clock are not part of the        *)
(* modelled sources; they are modelled from the specification (section 3   *)
(* and 4.2.1).  The voxel world is a strip of chunks along x (vz = 0,      *)
(* cz = 0).                                                                *)
(***************************************************************************)
EXTENDS Integers, Sequences, FiniteSets, TLC

\* the fields of the model's records, in the order every record lists them
Fields ==
    [above |-> 0, addr |-> 0, after |-> 0, before |-> 0, body |-> 0, borrowed |-> 0, chat |-> 0,
     chunk |-> 0, chunk_cache |-> 0, chunks |-> 0, client_id |-> 0,
     client_name |-> 0, clients |-> 0, clock |-> 0, coords |-> 0,
     current_chunk |-> 0, draws |-> 0, event |-> 0, exclude |-> 0, failed |-> 0, field |-> 0,
     id |-> 0, json |-> 0, kind |-> 0, message_queue |-> 0, msg |-> 0, name |-> 0,
     needs_propagation |-> 0, old |-> 0, panicked |-> 0, peers |-> 0,
     position |-> 0, px |-> 0, py |-> 0, pz |-> 0, qw |-> 0, qx |-> 0, qy |-> 0,
     qz |-> 0, radius |-> 0, raw |-> 0, render_radius |-> 0, request_queue |-> 0,
     requested_chunks |-> 0,
     results |-> 0, rotation |-> 0, sender |-> 0, sent |-> 0, status |-> 0,
     text |-> 0, tickSpeed |-> 0, tick_speed |-> 0, time |-> 0, to_generate |-> 0, trace |-> 0,
     type |-> 0, update |-> 0, updates |-> 0, value |-> 0, voxels |-> 0,
     vx |-> 0, vy |-> 0, vz |-> 0, world_name |-> 0, x |-> 0, z |-> 0]

\* clients, clock, chunks: the Clients, Clock and Chunks resource of every world
\* pc, pending: the hub actor's position and the message it is dispatching
\* entry: the clients and clock of every world when the running handler began
\* trace: what the handler or ticker that ran last did, in program order
VARIABLES clients, clock, chunks, pc, pending, entry, trace

vars == <<clients, clock, chunks, pc, pending, entry, trace>>

----------------------------------------------------------------------------
(* Bounds of the model *)

\* longest `updates` list of one Update message
MaxUpdates == 2
\* WorldConfig.max_height of the modelled worlds
MaxHeight == 3
\* WorldConfig.chunk_size of the modelled worlds
ChunkSize == 2
\* number of random draws one Join may consume before it finds a free id
MaxDraws == 2
\* WorldConfig.dimension of the modelled worlds: voxels per world unit
Dimension == 2

Worlds == {"w1", "w2"}
Ids == {1, 2, 3}
ChunkXs == {0, 1}
VoxelXs == 0 .. (2 * ChunkSize - 1)

----------------------------------------------------------------------------
(* Option<T>: None is the empty sequence, Some(v) is <<v>> *)

None == <<>>
Some(v) == <<v>>
IsSome(o) == o # <<>>
Unwrap(o) == o[1]

----------------------------------------------------------------------------
(* Registry (modelled from the specification) *)

Air == 0
Stone == 1
Grass == 2
\* an id the registry does not know
Bogus == 9

RegisteredTypes == {Air, Stone, Grass}

has_type(id) == id \in RegisteredTypes
is_air(id) == id = Air
is_plant(id) == id = Grass

----------------------------------------------------------------------------
(* Chunks (modelled from the specification).                               *)
(* ch = [chunk_cache |-> set of chunk coordinates,                         *)
(*       status |-> [ChunkXs -> {"none", "unlit", "ready"}],               *)
(*       to_generate |-> set of <<chunk coordinate, radius>> requests,     *)
(*       voxels |-> [VoxelXs \X (0 .. MaxHeight-1) -> type]]               *)
(* "none": no chunk at the coordinate; "unlit": the chunk exists and has   *)
(* needs_propagation = true; "ready": lit and meshable.                    *)

\* voxel = floor(world * dimension); positions are whole numbers in the model
map_world_to_voxel(px, py, pz) == <<px * Dimension, py * Dimension, pz * Dimension>>

map_voxel_to_chunk(vx, vy, vz) == <<vx \div ChunkSize, vz \div ChunkSize>>

chunk_status(ch, coords) ==
    IF coords[1] \in ChunkXs /\ coords[2] = 0 THEN ch.status[coords[1]] ELSE "none"

\* Option<&Chunk>: the chunk is represented by its coordinate
get_chunk_by_voxel(ch, vx, vy, vz) ==
    LET coords == map_voxel_to_chunk(vx, vy, vz)
    IN  IF chunk_status(ch, coords) = "none" THEN None ELSE Some(coords)

needs_propagation(ch, coords) == chunk_status(ch, coords) = "unlit"

get_voxel_by_voxel(ch, vx, vy, vz) ==
    IF vx \in VoxelXs /\ vz = 0 /\ vy >= 0 /\ vy < MaxHeight
       /\ chunk_status(ch, map_voxel_to_chunk(vx, vy, vz)) # "none"
    THEN ch.voxels[<<vx, vy>>]
    ELSE Air

\* chunks.update between start_caching and stop_caching: the voxel is set and
\* the owning chunk is recorded in chunk_cache
chunks_update(ch, vx, vy, vz, id) ==
    [ch EXCEPT !.voxels[<<vx, vy>>] = id,
               !.chunk_cache = @ \cup {map_voxel_to_chunk(vx, vy, vz)}]

\* the chunks next to a voxel that lies on the border of its chunk
get_neighbor_chunk_coords(vx, vy, vz) ==
    LET c == map_voxel_to_chunk(vx, vy, vz)
        lx == vx % ChunkSize
    IN  (IF lx <= 0 THEN {<<c[1] - 1, c[2]>>} ELSE {})
        \cup (IF lx >= ChunkSize - 1 THEN {<<c[1] + 1, c[2]>>} ELSE {})

\* chunks.raw(coords): Option
chunks_raw(ch, coords) ==
    IF chunk_status(ch, coords) = "none" THEN None ELSE Some(coords)

\* chunks.get(coords, level, remesh): Option, none while the chunk is not ready
chunks_get(ch, coords) ==
    IF chunk_status(ch, coords) = "ready" THEN Some(coords) ELSE None

\* chunks.generate(coords, radius, false): the request is recorded; the
\* generator itself runs outside the modelled sources
chunks_generate(ch, coords, radius) ==
    [ch EXCEPT !.to_generate = @ \cup {<<coords, radius>>}]

\* chunks.tick(): generation bookkeeping, no effect on the modelled fields
chunks_tick(ch) == ch

----------------------------------------------------------------------------
(* Clock (modelled from the specification): time is cyclic day-time and a   *)
(* tick advances it by tick_speed for one unit of elapsed time              *)

DayLength == 4

clock_tick(ck) == [ck EXCEPT !.time = (@ + ck.tick_speed) % DayLength]

----------------------------------------------------------------------------
(* Messages (models::messages::Message): every message has all fields *)

Message(type) ==
    [chat |-> None, chunks |-> <<>>, json |-> None, peers |-> <<>>, text |-> "",
     type |-> type, updates |-> <<>>]

create_of_type(type) == Message(type)

Update(vx, vy, vz, type) == [type |-> type, vx |-> vx, vy |-> vy, vz |-> vz]

\* create_chat_message(type, chat type, sender, body)
create_chat_message(type, chatType, sender, body) ==
    [Message(type) EXCEPT
        !.chat = Some([body |-> body, sender |-> sender, type |-> chatType])]

----------------------------------------------------------------------------
(* World::broadcast, world.rs 123-145 *)

\* the clients the message is sent to: every client not excluded
BroadcastTargets(cl, exclude) == {id \in DOMAIN cl : id \notin exclude}

\* RestingClients marking every client with a closed sink, excluded or not
RestingClientsIgnoringExclude(cl, exclude) ==
    {id \in DOMAIN cl : ~cl[id].addr}

\* resting_clients: the targets whose do_send returned an error
RestingClients(cl, exclude) ==
    {id \in BroadcastTargets(cl, exclude) : ~cl[id].addr}

\* a removal that empties the table
RemoveClientsClearing(cl, ids) == [id \in {} |-> cl[id]]

\* lines 142-144 and server.rs 249: clients.remove(id) for each id
RemoveClients(cl, ids) == [id \in (DOMAIN cl) \ ids |-> cl[id]]

\* line 124: the resources broadcast has borrowed while the loop of lines
\* 128-140 calls do_send; the FetchMut on Clients lives to line 145
BroadcastBorrows == {"Clients"}

\* the table after the broadcast and the event it leaves in the trace
Broadcast(world_name, cl, msg, exclude) ==
    LET resting == RestingClients(cl, exclude)
        remaining == RemoveClients(cl, resting)
    IN  [clients |-> remaining,
         event |-> [after |-> DOMAIN remaining,
                    before |-> DOMAIN cl,
                    borrowed |-> BroadcastBorrows,
                    event |-> "broadcast",
                    exclude |-> exclude,
                    failed |-> resting,
                    msg |-> msg,
                    sent |-> BroadcastTargets(cl, exclude) \ resting,
                    world_name |-> world_name]]

----------------------------------------------------------------------------
(* World::on_update, world.rs 185-265 *)

\* line 201 without the upper bound on vy
OutOfRangeOrUnknownNoCeiling(update) ==
    update.vy < 0 \/ ~has_type(update.type)

\* line 201
OutOfRangeOrUnknown(update) ==
    update.vy < 0 \/ update.vy >= MaxHeight \/ ~has_type(update.type)

\* lines 210-213 rejecting every air update
AirOverAirAnyAir(ch, update) == is_air(update.type)

\* lines 210-213
AirOverAir(ch, update) ==
    is_air(get_voxel_by_voxel(ch, update.vx, update.vy, update.vz))
    /\ is_air(update.type)

\* PlantCascade looking at the written voxel instead of the one above it
PlantCascadeSameVoxel(ch, update) ==
    IF is_plant(get_voxel_by_voxel(ch, update.vx, update.vy, update.vz))
    THEN <<Update(update.vx, update.vy + 1, update.vz, Air)>>
    ELSE <<>>

\* lines 224-234: the follow-up pushed on the stack, if any
PlantCascade(ch, update) ==
    IF is_plant(get_voxel_by_voxel(ch, update.vx, update.vy + 1, update.vz))
    THEN <<Update(update.vx, update.vy + 1, update.vz, Air)>>
    ELSE <<>>

\* lines 215-222: the write and the chunks it adds to chunk_cache
ApplyUpdate(ch, update) ==
    LET written == chunks_update(ch, update.vx, update.vy, update.vz, update.type)
    IN  [written EXCEPT !.chunk_cache =
            @ \cup get_neighbor_chunk_coords(update.vx, update.vy, update.vz)]

\* the trace entry of a call of chunks.update: the update, its chunk and that
\* chunk's needs_propagation, the voxel's old value and the voxel above it
WriteEvent(ch, update) ==
    [above |-> get_voxel_by_voxel(ch, update.vx, update.vy + 1, update.vz),
     chunk |-> map_voxel_to_chunk(update.vx, update.vy, update.vz),
     event |-> "write",
     needs_propagation |->
        needs_propagation(ch, map_voxel_to_chunk(update.vx, update.vy, update.vz)),
     old |-> get_voxel_by_voxel(ch, update.vx, update.vy, update.vz),
     update |-> update]

\* the trace entry of a `continue` of lines 201-213: the update that was
\* popped and dropped, its chunk's needs_propagation and the voxel's value
SkipEvent(ch, update) ==
    [event |-> "skip",
     needs_propagation |->
        needs_propagation(ch, map_voxel_to_chunk(update.vx, update.vy, update.vz)),
     old |-> get_voxel_by_voxel(ch, update.vx, update.vy, update.vz),
     update |-> update]

\* a pop that takes the entry listed first
PopUpdateFront(updates) == [update |-> Head(updates), updates |-> Tail(updates)]

\* line 194: updates.pop() takes the last element of the vector
PopUpdate(updates) ==
    [update |-> updates[Len(updates)],
     updates |-> SubSeq(updates, 1, Len(updates) - 1)]

\* lines 193-237: the while loop.
\* st = [chunks, panicked, results, trace, updates]
RECURSIVE DrainUpdates(_)
DrainUpdates(st) ==
    IF st.updates = <<>> \/ st.panicked THEN st
    ELSE
      LET update == PopUpdate(st.updates).update
          rest == PopUpdate(st.updates).updates
          ch == st.chunks
          skip == [st EXCEPT !.updates = rest,
                             !.trace = Append(@, SkipEvent(ch, update))]
      IN  IF OutOfRangeOrUnknown(update) THEN DrainUpdates(skip)
          ELSE IF ~IsSome(get_chunk_by_voxel(ch, update.vx, update.vy, update.vz))
          THEN [st EXCEPT !.updates = rest, !.panicked = TRUE]
          ELSE IF needs_propagation(ch,
                     Unwrap(get_chunk_by_voxel(ch, update.vx, update.vy, update.vz)))
          THEN DrainUpdates(skip)
          ELSE IF AirOverAir(ch, update) THEN DrainUpdates(skip)
          ELSE
            LET written == ApplyUpdate(ch, update)
            IN  DrainUpdates(
                  [chunks |-> written,
                   panicked |-> FALSE,
                   results |-> Append(st.results, update),
                   trace |-> Append(st.trace, WriteEvent(ch, update)),
                   updates |-> rest \o PlantCascade(written, update)])

\* the chunk re-mesh message of lines 247-257
ChunkMessage(coords) == [Message("Update") EXCEPT !.chunks = <<coords>>]

\* the aggregate message of lines 262-263
AggregateMessage(results) == [create_of_type("Update") EXCEPT !.updates = results]

IsChunkMessage(msg) == msg.type = "Update" /\ msg.chunks # <<>>
IsAggregateMessage(msg) == msg.type = "Update" /\ msg.chunks = <<>>

\* UpdateBroadcasts with the aggregate sent before the chunks
UpdateBroadcastsAggregateFirst(order, results) ==
    <<AggregateMessage(results)>> \o [i \in 1 .. Len(order) |-> ChunkMessage(order[i])]

\* lines 244-264: the messages on_update broadcasts, in program order; `order`
\* is the order in which the snapshot of chunk_cache is iterated
UpdateBroadcasts(order, results) ==
    [i \in 1 .. Len(order) |-> ChunkMessage(order[i])] \o <<AggregateMessage(results)>>

\* lines 244-264: the broadcasts.  A chunk message is built from
\* chunks.raw(coords).unwrap() and chunks.get(coords, ..).unwrap().
\* st = [clients, panicked, trace]
RECURSIVE BroadcastUpdates(_, _, _, _)
BroadcastUpdates(world_name, ch, msgs, st) ==
    IF msgs = <<>> \/ st.panicked THEN st
    ELSE
      LET msg == Head(msgs)
      IN  IF IsChunkMessage(msg)
             /\ (~IsSome(chunks_raw(ch, msg.chunks[1]))
                 \/ ~IsSome(chunks_get(ch, msg.chunks[1])))
          THEN [st EXCEPT !.panicked = TRUE]
          ELSE
            LET b == Broadcast(world_name, st.clients, msg, {})
            IN  BroadcastUpdates(world_name, ch, Tail(msgs),
                  [clients |-> b.clients,
                   panicked |-> FALSE,
                   trace |-> Append(st.trace, b.event)])

\* all orders in which a set can be iterated
Orders(S) ==
    {s \in [1 .. Cardinality(S) -> S] :
        \A i, j \in 1 .. Cardinality(S) : s[i] = s[j] => i = j}

\* lines 190-237
Drained(ch, msg) ==
    DrainUpdates([chunks |-> ch, panicked |-> FALSE, results |-> <<>>,
                  trace |-> <<>>, updates |-> msg.updates])

\* the whole handler; `order` is the iteration order of the cache snapshot.
\* Result: [chunks, clients, panicked, trace]
on_update(world_name, cl, ch, msg, order) ==
    LET drained == Drained(ch, msg)
        cleared == [drained.chunks EXCEPT !.chunk_cache = {}]
        done == BroadcastUpdates(world_name, cleared,
                    UpdateBroadcasts(order, drained.results),
                    [clients |-> cl, panicked |-> FALSE, trace |-> drained.trace])
    IN  IF drained.panicked
        THEN [chunks |-> drained.chunks, clients |-> cl, panicked |-> TRUE,
              trace |-> drained.trace]
        ELSE [chunks |-> cleared, clients |-> done.clients,
              panicked |-> done.panicked, trace |-> done.trace]

----------------------------------------------------------------------------
(* World::on_config, world.rs 160-183 *)

\* the unit in the last place of the f32 nearest to n > 2^24, from candidate p
RECURSIVE Ulp(_, _)
Ulp(n, p) == IF n < 16777216 * p THEN p ELSE Ulp(n, 2 * p)

\* `as f32` of a whole number: exact up to 2^24, else rounded to the nearest
\* representable value, ties to even
AsF32(n) ==
    IF n < 0 THEN 0 - (LET m == 0 - n
                           p == Ulp(m, 1)
                           q == m \div p
                           r == m % p
                       IN  IF 2 * r < p \/ (2 * r = p /\ q % 2 = 0)
                           THEN q * p ELSE (q + 1) * p)
    ELSE LET p == Ulp(n, 1)
             q == n \div p
             r == n % p
         IN  IF 2 * r < p \/ (2 * r = p /\ q % 2 = 0) THEN q * p ELSE (q + 1) * p

ClockEvent(field, value) == [event |-> "clock", field |-> field, value |-> value]

\* on_config excluding the sender from the rebroadcast
ConfigExcludeSender(client_id) == {client_id}

\* line 182: the exclusion list of the rebroadcast
ConfigExclude(client_id) == {}

\* lines 165-174: the clock after the update and the writes in program order.
\* json = [tickSpeed |-> Option, time |-> Option]
ConfigClock(ck, json) ==
    LET t1 == IF IsSome(json.time)
              THEN [clock |-> [ck EXCEPT !.time = AsF32(Unwrap(json.time))],
                    trace |-> <<ClockEvent("time", AsF32(Unwrap(json.time)))>>]
              ELSE [clock |-> ck, trace |-> <<>>]
    IN  IF IsSome(json.tickSpeed)
        THEN [clock |-> [t1.clock EXCEPT !.tick_speed = AsF32(Unwrap(json.tickSpeed))],
              trace |-> Append(t1.trace,
                          ClockEvent("tick_speed", AsF32(Unwrap(json.tickSpeed))))]
        ELSE t1

\* the whole handler.  msg.json is none when the payload is not JSON
\* (parse_json().unwrap() panics).  Result: [clients, clock, panicked, trace]
on_config(world_name, cl, ck, client_id, msg) ==
    IF ~IsSome(msg.json)
    THEN [clients |-> cl, clock |-> ck, panicked |-> TRUE, trace |-> <<>>]
    ELSE LET c == ConfigClock(ck, Unwrap(msg.json))
             new_message == [create_of_type("Config") EXCEPT !.json = msg.json]
             b == Broadcast(world_name, cl, new_message, ConfigExclude(client_id))
         IN  [clients |-> b.clients, clock |-> c.clock, panicked |-> FALSE,
              trace |-> Append(c.trace, b.event)]

----------------------------------------------------------------------------
(* World::on_chunk_request, world.rs 147-158 *)

\* msg.json is none when the payload is not JSON; x or z is none when the
\* field is missing or no integer (each unwrap panics).
\* Result: [clients, panicked, trace]
on_chunk_request(cl, client_id, msg) ==
    IF ~IsSome(msg.json) \/ ~IsSome(Unwrap(msg.json).x) \/ ~IsSome(Unwrap(msg.json).z)
    THEN [clients |-> cl, panicked |-> TRUE, trace |-> <<>>]
    ELSE LET coords == <<Unwrap(Unwrap(msg.json).x), Unwrap(Unwrap(msg.json).z)>>
         IN  IF client_id \in DOMAIN cl
             THEN [clients |-> [cl EXCEPT ![client_id].requested_chunks =
                                              Append(@, coords)],
                   panicked |-> FALSE,
                   trace |-> <<[client_id |-> client_id, coords |-> coords,
                                event |-> "enqueue"]>>]
             ELSE [clients |-> cl, panicked |-> FALSE, trace |-> <<>>]

----------------------------------------------------------------------------
(* World::on_peer, world.rs 267-326, and World::on_chat_message, 328-330 *)

\* lines 315-320
JoinChat(name) == create_chat_message("Message", "Info", "", <<name, " joined the game">>)

\* on_peer sending the join-chat on every Peer
FreshlyJoinedAlways(client) == TRUE

\* lines 292-298
FreshlyJoined(client) == ~IsSome(client.name)

\* on_peer sending the Peer packet back to the sender too
PeerExcludeNobody(client_id) == {}

\* line 325: the exclusion list of the rebroadcast
PeerExclude(client_id) == {client_id}

\* Result: [clients, panicked, trace]
on_peer(world_name, cl, client_id, msg) ==
    IF msg.peers = <<>>
    THEN [clients |-> cl, panicked |-> TRUE, trace |-> <<>>]
    ELSE IF client_id \notin DOMAIN cl
    THEN [clients |-> cl, panicked |-> FALSE, trace |-> <<>>]
    ELSE
      LET peer == msg.peers[1]
          freshly_joined == FreshlyJoined(cl[client_id])
          named == [cl EXCEPT ![client_id].name = Some(peer.name),
                              ![client_id].position = <<peer.px, peer.py, peer.pz>>,
                              ![client_id].rotation =
                                  <<peer.qx, peer.qy, peer.qz, peer.qw>>]
          b1 == Broadcast(world_name, named, JoinChat(peer.name), {})
          cl1 == IF freshly_joined THEN b1.clients ELSE named
          b2 == Broadcast(world_name, cl1, msg, PeerExclude(client_id))
      IN  [clients |-> b2.clients,
           panicked |-> FALSE,
           trace |-> (IF freshly_joined THEN <<b1.event>> ELSE <<>>) \o <<b2.event>>]

\* Result: [clients, panicked, trace]
on_chat_message(world_name, cl, client_id, msg) ==
    LET b == Broadcast(world_name, cl, msg, {})
    IN  [clients |-> b.clients, panicked |-> FALSE, trace |-> <<b.event>>]

----------------------------------------------------------------------------
(* The hub actor, server.rs *)

\* server.rs 34-42 and 227-235: the record Join inserts
Client(name, addr, render_radius) ==
    [addr |-> addr, current_chunk |-> None, name |-> name,
     position |-> <<0, 0, 0>>, render_radius |-> render_radius,
     requested_chunks |-> <<>>, rotation |-> <<0, 0, 0, 0>>]

IsNamed(client) == IsSome(client.name)

PlayerMessage(world_name, client_id, raw) ==
    [client_id |-> client_id, kind |-> "PlayerMessage", raw |-> raw,
     world_name |-> world_name]

JoinWorld(world_name, client_name, render_radius) ==
    [client_name |-> client_name, kind |-> "JoinWorld",
     render_radius |-> render_radius, world_name |-> world_name]

LeaveWorld(world_name, client_id) ==
    [client_id |-> client_id, kind |-> "LeaveWorld", world_name |-> world_name]

GetWorld(world_name) == [kind |-> "GetWorld", world_name |-> world_name]

\* the ticker callbacks of service_started, server.rs 398-404
ChunkingTick == [kind |-> "ChunkingTick"]

Snapshot == Some([clients |-> clients, clock |-> clock])

\* the transport hands a message to the hub
Deliver(m) ==
    /\ pc = "idle"
    /\ pc' = "dispatch"
    /\ pending' = Some(m)
    /\ UNCHANGED <<clients, clock, chunks, entry, trace>>

Dispatching(kind) ==
    pc = "dispatch" /\ IsSome(pending) /\ Unwrap(pending).kind = kind

DispatchingPlayer(type) ==
    Dispatching("PlayerMessage") /\ Unwrap(pending).raw.type = type

\* an unwrap or expect failed before the handler changed anything
Panic ==
    /\ pc' = "panicked"
    /\ entry' = Snapshot
    /\ trace' = <<>>
    /\ UNCHANGED <<clients, clock, chunks, pending>>

\* the handler has returned; the actor takes the next message
Return ==
    /\ pc = "returned"
    /\ pc' = "idle"
    /\ pending' = None
    /\ entry' = None
    /\ trace' = <<>>
    /\ UNCHANGED <<clients, clock, chunks>>

\* the session behind a client's sink ends: do_send to it fails from now on
SinkCloses ==
    /\ pc = "idle"
    /\ \E w \in Worlds : \E id \in DOMAIN clients[w] :
         /\ clients[w][id].addr
         /\ clients' = [clients EXCEPT ![w][id].addr = FALSE]
    /\ UNCHANGED <<clock, chunks, pc, pending, entry, trace>>

(* add_client_to_world, server.rs 50-83 *)

\* lines 56-67 taking the first draw without looking at the table
PickIdUnchecked(taken, draws) == Head(draws)

\* lines 56-67: `draws` are the values of rand::random in the order drawn; the
\* loop ends at the first one that is no key of the table
RECURSIVE PickId(_, _)
PickId(taken, draws) ==
    IF Len(draws) = 1 \/ Head(draws) \notin taken
    THEN Head(draws)
    ELSE PickId(taken, Tail(draws))

\* the draws the loop consumes: every draw but the last is a key of the table
Consumes(taken, draws) ==
    /\ draws # <<>>
    /\ \A i \in 1 .. Len(draws) - 1 : draws[i] \in taken
    /\ draws[Len(draws)] \notin taken

\* line 69: HashMap::insert
InsertClient(cl, id, client) ==
    [i \in (DOMAIN cl) \cup {id} |-> IF i = id THEN client ELSE cl[i]]

\* lines 73-82, without the registry's passables
JoinResult(id, ck) == [id |-> id, tick_speed |-> ck.tick_speed, time |-> ck.time]

\* Handler<JoinWorld>, server.rs 216-240
HandleJoin ==
    /\ Dispatching("JoinWorld")
    /\ LET m == Unwrap(pending)
           w == m.world_name
       IN  IF w \notin Worlds THEN Panic
           ELSE \E draws \in UNION {[1 .. n -> Ids] : n \in 1 .. MaxDraws} :
                  /\ Consumes(DOMAIN clients[w], draws)
                  /\ LET id == PickId(DOMAIN clients[w], draws)
                     IN  /\ clients' = [clients EXCEPT ![w] =
                                InsertClient(@, id,
                                    Client(m.client_name, TRUE, m.render_radius))]
                         /\ trace' = <<[draws |-> Len(draws),
                                        event |-> "join",
                                        id |-> JoinResult(id, clock[w]).id,
                                        tick_speed |-> JoinResult(id, clock[w]).tick_speed,
                                        time |-> JoinResult(id, clock[w]).time,
                                        world_name |-> w]>>
                  /\ pc' = "returned"
                  /\ entry' = Snapshot
                  /\ UNCHANGED <<clock, chunks, pending>>

\* lines 256-262: the Leave message
LeaveMessage(client_name, client_id) ==
    [create_chat_message("Leave", "Info", "", <<client_name, " left the game">>)
        EXCEPT !.text = ToString(client_id)]

\* Handler<LeaveWorld>, server.rs 242-279
HandleLeave ==
    /\ Dispatching("LeaveWorld")
    /\ LET m == Unwrap(pending)
           w == m.world_name
       IN  IF w \in Worlds /\ m.client_id \in DOMAIN clients[w]
           THEN LET client == clients[w][m.client_id]
                    client_name == IF IsSome(client.name) THEN Unwrap(client.name)
                                   ELSE "Somebody"
                    b == Broadcast(w, RemoveClients(clients[w], {m.client_id}),
                                   LeaveMessage(client_name, m.client_id), {})
                IN  /\ clients' = [clients EXCEPT ![w] = b.clients]
                    /\ trace' = <<[client_id |-> m.client_id, event |-> "remove",
                                   world_name |-> w],
                                  b.event>>
           ELSE /\ trace' = <<>>
                /\ UNCHANGED clients
    /\ pc' = "returned"
    /\ entry' = Snapshot
    /\ UNCHANGED <<clock, chunks, pending>>

\* lines 358-371, without the configuration and the block table
FullWorldData(world_name, ck) ==
    [event |-> "world", tick_speed |-> ck.tick_speed, time |-> ck.time,
     world_name |-> world_name]

\* Handler<GetWorld>, server.rs 346-373
HandleGetWorld ==
    /\ Dispatching("GetWorld")
    /\ LET w == Unwrap(pending).world_name
       IN  IF w \notin Worlds THEN Panic
           ELSE /\ trace' = <<FullWorldData(w, clock[w])>>
                /\ pc' = "returned"
                /\ entry' = Snapshot
                /\ UNCHANGED <<clients, clock, chunks, pending>>

(* Handler<PlayerMessage>, server.rs 289-311 *)

HandleUpdate ==
    /\ DispatchingPlayer("Update")
    /\ LET m == Unwrap(pending)
           w == m.world_name
       IN  IF w \notin Worlds THEN Panic
           ELSE \E order \in Orders(Drained(chunks[w], m.raw).chunks.chunk_cache) :
                  LET r == on_update(w, clients[w], chunks[w], m.raw, order)
                  IN  /\ clients' = [clients EXCEPT ![w] = r.clients]
                      /\ chunks' = [chunks EXCEPT ![w] = r.chunks]
                      /\ trace' = r.trace
                      /\ pc' = IF r.panicked THEN "panicked" ELSE "returned"
                      /\ entry' = Snapshot
                      /\ UNCHANGED <<clock, pending>>

HandleConfig ==
    /\ DispatchingPlayer("Config")
    /\ LET m == Unwrap(pending)
           w == m.world_name
       IN  IF w \notin Worlds THEN Panic
           ELSE LET r == on_config(w, clients[w], clock[w], m.client_id, m.raw)
                IN  /\ clients' = [clients EXCEPT ![w] = r.clients]
                    /\ clock' = [clock EXCEPT ![w] = r.clock]
                    /\ trace' = r.trace
                    /\ pc' = IF r.panicked THEN "panicked" ELSE "returned"
                    /\ entry' = Snapshot
                    /\ UNCHANGED <<chunks, pending>>

HandleRequest ==
    /\ DispatchingPlayer("Request")
    /\ LET m == Unwrap(pending)
           w == m.world_name
       IN  IF w \notin Worlds THEN Panic
           ELSE LET r == on_chunk_request(clients[w], m.client_id, m.raw)
                IN  /\ clients' = [clients EXCEPT ![w] = r.clients]
                    /\ trace' = r.trace
                    /\ pc' = IF r.panicked THEN "panicked" ELSE "returned"
                    /\ entry' = Snapshot
                    /\ UNCHANGED <<clock, chunks, pending>>

HandlePeer ==
    /\ DispatchingPlayer("Peer")
    /\ LET m == Unwrap(pending)
           w == m.world_name
       IN  IF w \notin Worlds THEN Panic
           ELSE LET r == on_peer(w, clients[w], m.client_id, m.raw)
                IN  /\ clients' = [clients EXCEPT ![w] = r.clients]
                    /\ trace' = r.trace
                    /\ pc' = IF r.panicked THEN "panicked" ELSE "returned"
                    /\ entry' = Snapshot
                    /\ UNCHANGED <<clock, chunks, pending>>

HandleChat ==
    /\ DispatchingPlayer("Message")
    /\ LET m == Unwrap(pending)
           w == m.world_name
       IN  IF w \notin Worlds THEN Panic
           ELSE LET r == on_chat_message(w, clients[w], m.client_id, m.raw)
                IN  /\ clients' = [clients EXCEPT ![w] = r.clients]
                    /\ trace' = r.trace
                    /\ pc' = "returned"
                    /\ entry' = Snapshot
                    /\ UNCHANGED <<clock, chunks, pending>>

----------------------------------------------------------------------------
(* WsServer::chunking, server.rs 145-204 *)

NamedClients(cl) == {id \in DOMAIN cl : IsNamed(cl[id])}

\* lines 153-164 for one client: pop_front, and the request_queue entry.
\* st = [clients (of every world), request_queue, trace]
PopRequest(st, world_name, id) ==
    LET queue == st.clients[world_name][id].requested_chunks
        requested_chunk == IF queue = <<>> THEN None ELSE Some(Head(queue))
    IN  [clients |-> [st.clients EXCEPT ![world_name][id].requested_chunks =
                          IF queue = <<>> THEN <<>> ELSE Tail(queue)],
         request_queue |-> Append(st.request_queue,
                                  <<requested_chunk, world_name, id>>),
         trace |-> Append(st.trace,
                     [client_id |-> id, coords |-> requested_chunk,
                      event |-> "pop", world_name |-> world_name])]

\* lines 149-165: `visits` lists <<world, id>> for every named client, in the
\* iteration order of the two hash maps
RECURSIVE PopRequests(_, _)
PopRequests(st, visits) ==
    IF visits = <<>> THEN st
    ELSE PopRequests(PopRequest(st, Head(visits)[1], Head(visits)[2]), Tail(visits))

\* line 183: the exclusion list queued with a Load message
LoadExclude(cl, client_id) == {}

LoadMessage(coords) == [Message("Load") EXCEPT !.chunks = <<coords>>]

\* RequeueNotReady putting the coordinate back at the head
RequeueAtHead(queue, coords) == <<coords>> \o queue

\* line 193: push_back
RequeueNotReady(queue, coords) == Append(queue, coords)

\* AnswerRequest dropping a coordinate whose chunk is not ready
AnswerRequestOnlyReady(chs, st, request) ==
    IF IsSome(request[1]) /\ IsSome(chunks_get(chs[request[2]], Unwrap(request[1])))
    THEN [st EXCEPT !.message_queue =
             Append(@, <<request[2], LoadMessage(Unwrap(request[1])),
                         LoadExclude(st.clients[request[2]], request[3])>>)]
    ELSE st

\* lines 167-196 for one request_queue entry.
\* st = [clients, message_queue, trace]
AnswerRequest(chs, st, request) ==
    LET coords == request[1]
        world_name == request[2]
        client_id == request[3]
    IN  IF ~IsSome(coords) THEN st
        ELSE IF IsSome(chunks_get(chs[world_name], Unwrap(coords)))
        THEN [st EXCEPT !.message_queue =
                 Append(@, <<world_name, LoadMessage(Unwrap(coords)),
                             LoadExclude(st.clients[world_name], client_id)>>)]
        ELSE [clients |-> [st.clients EXCEPT
                              ![world_name][client_id].requested_chunks =
                                  RequeueNotReady(@, Unwrap(coords))],
              message_queue |-> st.message_queue,
              trace |-> Append(st.trace,
                          [client_id |-> client_id, coords |-> Unwrap(coords),
                           event |-> "requeue", world_name |-> world_name])]

RECURSIVE AnswerRequests(_, _, _)
AnswerRequests(chs, st, request_queue) ==
    IF request_queue = <<>> THEN st
    ELSE AnswerRequests(chs, AnswerRequest(chs, st, Head(request_queue)),
                        Tail(request_queue))

\* lines 198-202 and 85-96.  st = [clients, trace]
RECURSIVE SendQueued(_, _)
SendQueued(st, message_queue) ==
    IF message_queue = <<>> THEN st
    ELSE LET world_name == Head(message_queue)[1]
             b == Broadcast(world_name, st.clients[world_name],
                            Head(message_queue)[2], Head(message_queue)[3])
         IN  SendQueued([clients |-> [st.clients EXCEPT ![world_name] = b.clients],
                         trace |-> Append(st.trace, b.event)],
                        Tail(message_queue))

\* the whole ticker.  Result: [clients, trace]
chunking(cls, chs, visits) ==
    LET popped == PopRequests([clients |-> cls, request_queue |-> <<>>,
                               trace |-> <<>>], visits)
        answered == AnswerRequests(chs,
                        [clients |-> popped.clients, message_queue |-> <<>>,
                         trace |-> popped.trace],
                        popped.request_queue)
    IN  SendQueued([clients |-> answered.clients, trace |-> answered.trace],
                   answered.message_queue)

\* the orders in which the worlds and, in each, its named clients are visited
Visits(cls) ==
    {s \in Orders({v \in Worlds \X Ids : v[2] \in NamedClients(cls[v[1]])}) :
        \A i, j \in 1 .. Len(s) :
            (i < j /\ s[i][1] = s[j][1]) =>
                \A k \in i .. j : s[k][1] = s[i][1]}

\* ctx.run_interval(CHUNKING_TICK, ..), server.rs 402-404
Chunking ==
    /\ pc = "idle"
    /\ \E visits \in Visits(clients) :
         LET r == chunking(clients, chunks, visits)
         IN  /\ clients' = r.clients
             /\ trace' = r.trace
    /\ pc' = "returned"
    /\ pending' = Some(ChunkingTick)
    /\ entry' = Snapshot
    /\ UNCHANGED <<clock, chunks>>


----------------------------------------------------------------------------
(* WsServer::tick, server.rs 98-143, and World::tick, world.rs 332-348 *)

WorldTick == [kind |-> "WorldTick"]

\* world.rs 336-339.  Result: [chunks, clock]
world_tick(ck, ch) == [chunks |-> chunks_tick(ch), clock |-> clock_tick(ck)]

\* lines 123-125: the chunk the client's position lies in
NewChunk(client) ==
    LET v == map_world_to_voxel(client.position[1], client.position[2],
                                client.position[3])
    IN  map_voxel_to_chunk(v[1], v[2], v[3])

\* lines 127-129
ChunkChanged(client) ==
    \/ ~IsSome(client.current_chunk)
    \/ Unwrap(client.current_chunk)[1] # NewChunk(client)[1]
    \/ Unwrap(client.current_chunk)[2] # NewChunk(client)[2]

\* lines 116-135 for one client.  st = [clients, to_generate, trace], clients
\* being the table of the world
TrackClient(st, world_name, id) ==
    LET client == st.clients[id]
    IN  IF ~IsNamed(client) \/ ~ChunkChanged(client) THEN st
        ELSE [clients |-> [st.clients EXCEPT
                              ![id].current_chunk = Some(NewChunk(client))],
              to_generate |-> Append(st.to_generate,
                                     <<NewChunk(client), client.render_radius>>),
              trace |-> Append(st.trace,
                          [client_id |-> id, coords |-> NewChunk(client),
                           event |-> "current_chunk", world_name |-> world_name])]

RECURSIVE TrackClients(_, _, _)
TrackClients(st, world_name, order) ==
    IF order = <<>> THEN st
    ELSE TrackClients(TrackClient(st, world_name, Head(order)), world_name,
                      Tail(order))

\* lines 139-141: every entry of to_generate goes to this world's Chunks.
\* st = [chunks, trace]
RECURSIVE GenerateAll(_, _, _)
GenerateAll(st, world_name, to_generate) ==
    IF to_generate = <<>> THEN st
    ELSE LET coords == Head(to_generate)[1]
             r == Head(to_generate)[2]
         IN  GenerateAll(
                 [chunks |-> chunks_generate(st.chunks, coords, r),
                  trace |-> Append(st.trace,
                              [coords |-> coords, event |-> "generate",
                               radius |-> r, world_name |-> world_name])],
                 world_name, Tail(to_generate))

\* lines 101-142 for one world; to_generate is declared before the loop over
\* the worlds (line 99) and is carried from one world to the next.
\* st = [chunks, clients, clock, to_generate, trace] over every world
TickWorld(st, world_name, order) ==
    LET ticked == world_tick(st.clock[world_name], st.chunks[world_name])
        tracked == TrackClients([clients |-> st.clients[world_name],
                                 to_generate |-> st.to_generate,
                                 trace |-> st.trace],
                                world_name, order)
        generated == GenerateAll([chunks |-> ticked.chunks, trace |-> tracked.trace],
                                 world_name, tracked.to_generate)
    IN  [chunks |-> [st.chunks EXCEPT ![world_name] = generated.chunks],
         clients |-> [st.clients EXCEPT ![world_name] = tracked.clients],
         clock |-> [st.clock EXCEPT ![world_name] = ticked.clock],
         to_generate |-> tracked.to_generate,
         trace |-> generated.trace]

\* `worlds` is the order in which self.worlds is iterated, orders[w] the order
\* in which the clients of world w are
RECURSIVE TickWorlds(_, _, _)
TickWorlds(st, worlds, orders) ==
    IF worlds = <<>> THEN st
    ELSE TickWorlds(TickWorld(st, Head(worlds), orders[Head(worlds)]),
                    Tail(worlds), orders)

\* the whole ticker.  Result: [chunks, clients, clock, to_generate, trace]
tick(cls, cks, chs, worlds, orders) ==
    TickWorlds([chunks |-> chs, clients |-> cls, clock |-> cks,
                to_generate |-> <<>>, trace |-> <<>>],
               worlds, orders)

\* the orders in which the clients of every world can be iterated
ClientOrders(cls) ==
    {f \in [Worlds -> UNION {Orders(DOMAIN cls[w]) : w \in Worlds}] :
        \A w \in Worlds : f[w] \in Orders(DOMAIN cls[w])}

\* ctx.run_interval(SERVER_TICK, ..), server.rs 398-400
Tick ==
    /\ pc = "idle"
    /\ \E worlds \in Orders(Worlds) : \E orders \in ClientOrders(clients) :
         LET r == tick(clients, clock, chunks, worlds, orders)
         IN  /\ clients' = r.clients
             /\ clock' = r.clock
             /\ chunks' = r.chunks
             /\ trace' = r.trace
    /\ pc' = "returned"
    /\ pending' = Some(WorldTick)
    /\ entry' = Snapshot
----------------------------------------------------------------------------
(* Inputs and initial states *)

SeqsUpTo(S, n) == UNION {[1 .. k -> S] : k \in 0 .. n}

\* flat terrain: stone at the bottom, air above
FlatColumn == [y \in 0 .. MaxHeight - 1 |-> IF y = 0 THEN Stone ELSE Air]

\* a plant on every voxel above the bottom
GrassColumn == [y \in 0 .. MaxHeight - 1 |-> IF y = 0 THEN Stone ELSE Grass]

\* any bottom voxel, air or plants above it
Columns ==
    {col \in [0 .. MaxHeight - 1 -> RegisteredTypes] :
        \A y \in 1 .. MaxHeight - 1 : col[y] # Stone}

\* flat terrain, except for the column at x = ChunkSize - 1
VoxelsWith(col) ==
    [v \in VoxelXs \X (0 .. MaxHeight - 1) |->
        IF v[1] = ChunkSize - 1 THEN col[v[2]] ELSE FlatColumn[v[2]]]

ChunksWith(status, col) ==
    [chunk_cache |-> {}, status |-> status, to_generate |-> {},
     voxels |-> VoxelsWith(col)]

ReadyStatus == [x \in ChunkXs |-> "ready"]

\* every chunk of the strip generated and lit
ReadyWorld == ChunksWith(ReadyStatus, FlatColumn)

NoClients == [id \in {} |-> Client(None, TRUE, 0)]

TwoNamedClients ==
    [id \in {1, 2} |-> Client(Some(IF id = 1 THEN "a" ELSE "b"), TRUE, 1)]

\* Clock::new(time, tick_speed) of the world's metadata
InitClock == [tick_speed |-> 1, time |-> 0]

(* on_update *)

UpdateXs == {ChunkSize - 1}
\* below the floor, the floor, the two top rows, and the ceiling
UpdateYs == {-1, 0, MaxHeight - 2, MaxHeight - 1, MaxHeight}
UpdateTypes == {Air, Grass}
\* registered types at every height, and one entry of an unregistered type
UpdateEntries ==
    {Update(vx, vy, 0, t) : vx \in UpdateXs, vy \in UpdateYs, t \in UpdateTypes}
    \cup {Update(vx, 0, 0, Bogus) : vx \in UpdateXs}

UpdateMessages ==
    {[Message("Update") EXCEPT !.updates = u] : u \in SeqsUpTo(UpdateEntries, MaxUpdates)}

DeliverUpdate ==
    \E raw \in UpdateMessages : Deliver(PlayerMessage("w1", 1, raw))

\* chunk 0 ready beside any chunk 1, or chunk 0 missing or unlit
UpdateStatuses ==
    {[x \in ChunkXs |-> IF x = 0 THEN "ready" ELSE s] : s \in {"none", "unlit", "ready"}}
    \cup {[x \in ChunkXs |-> IF x = 0 THEN s ELSE "ready"] : s \in {"none", "unlit"}}

\* every column in a ready strip; two columns in the others
UpdateWorlds ==
    {ChunksWith(ReadyStatus, col) : col \in Columns}
    \cup {ChunksWith(st, col) : st \in UpdateStatuses \ {ReadyStatus},
                                col \in {FlatColumn, GrassColumn}}

InitUpdate ==
    /\ clients = [w \in Worlds |-> IF w = "w1" THEN TwoNamedClients ELSE NoClients]
    /\ clock = [w \in Worlds |-> InitClock]
    /\ \E cw \in UpdateWorlds :
         chunks = [w \in Worlds |-> IF w = "w1" THEN cw ELSE ReadyWorld]
    /\ pc = "idle"
    /\ pending = None
    /\ entry = None
    /\ trace = <<>>

NextUpdate == DeliverUpdate \/ HandleUpdate \/ Return

\* Update messages from a client of world w1, over every state of its column
SpecUpdate == InitUpdate /\ [][NextUpdate]_vars

(* the stack of on_update *)

\* longest `updates` list of one Update message in SpecStack
MaxStack == 3

\* air and plants in the two bottom voxels of the column at x = ChunkSize - 1
StackEntries ==
    {Update(ChunkSize - 1, vy, 0, t) : vy \in {0, 1}, t \in UpdateTypes}

StackMessages ==
    {[Message("Update") EXCEPT !.updates = u] : u \in SeqsUpTo(StackEntries, MaxStack)}

DeliverStack ==
    \E raw \in StackMessages : Deliver(PlayerMessage("w1", 1, raw))

InitStack ==
    /\ clients = [w \in Worlds |-> IF w = "w1" THEN TwoNamedClients ELSE NoClients]
    /\ clock = [w \in Worlds |-> InitClock]
    /\ \E col \in Columns :
         chunks = [w \in Worlds |-> IF w = "w1" THEN ChunksWith(ReadyStatus, col)
                                    ELSE ReadyWorld]
    /\ pc = "idle"
    /\ pending = None
    /\ entry = None
    /\ trace = <<>>

NextStack == DeliverStack \/ HandleUpdate \/ Return

\* Update messages of up to MaxStack entries for one column of a ready world
SpecStack == InitStack /\ [][NextStack]_vars

(* on_config *)

\* the JSON payloads of Config: each field absent or a number
ConfigTimes == {None, Some(5), Some(16777217)}
ConfigSpeeds == {None, Some(2), Some(-1)}

ConfigMessages ==
    {[Message("Config") EXCEPT !.json = Some([tickSpeed |-> s, time |-> t])] :
        s \in ConfigSpeeds, t \in ConfigTimes}

DeliverConfig ==
    \E raw \in ConfigMessages : \E id \in {1, 3} :
        Deliver(PlayerMessage("w1", id, raw))

InitConfig ==
    /\ clients = [w \in Worlds |-> TwoNamedClients]
    /\ clock = [w \in Worlds |-> InitClock]
    /\ chunks = [w \in Worlds |-> ReadyWorld]
    /\ pc = "idle"
    /\ pending = None
    /\ entry = None
    /\ trace = <<>>

NextConfig == DeliverConfig \/ HandleConfig \/ Tick \/ SinkCloses \/ Return

\* Config messages to world w1 from a client and from an unknown id, and
\* world ticks, while sessions end
SpecConfig == InitConfig /\ [][NextConfig]_vars

(* joining, leaving, peers and chat *)

\* most clients a world holds in the model
MaxClients == 2

ClientNames == {None, Some("n")}

\* the world names a request may carry: the loaded worlds and one that is
\* not loaded
WorldNames == Worlds \cup {"nowhere"}

\* the worlds the Leave, Peer and chat messages of the model are sent to
TargetWorlds == {"w1", "nowhere"}

DeliverJoin ==
    \E w \in WorldNames : \E n \in ClientNames :
        /\ w \in Worlds => Cardinality(DOMAIN clients[w]) < MaxClients
        /\ Deliver(JoinWorld(w, n, 1))

DeliverLeave ==
    \E w \in TargetWorlds : \E id \in Ids : Deliver(LeaveWorld(w, id))

DeliverGetWorld ==
    \E w \in WorldNames : Deliver(GetWorld(w))

\* messages::Peer of a client at (px, py, pz)
PeerEntry(name, px, py, pz) ==
    [name |-> name, px |-> px, py |-> py, pz |-> pz,
     qw |-> 4, qx |-> 1, qy |-> 2, qz |-> 3]

PeerMessage(name) ==
    [Message("Peer") EXCEPT !.peers = <<PeerEntry(name, 1, 2, 3)>>]

DeliverPeer ==
    \E w \in TargetWorlds : \E id \in Ids :
        Deliver(PlayerMessage(w, id, PeerMessage("p")))

\* a chat line; the body is a tuple of strings, as in create_chat_message
ChatMessage(body) == create_chat_message("Message", "Info", "", body)

DeliverChat ==
    \E w \in TargetWorlds : \E id \in Ids :
        Deliver(PlayerMessage(w, id, ChatMessage(<<"hi">>)))

\* the state after service_started: the worlds are loaded, nobody has joined
Init ==
    /\ clients = [w \in Worlds |-> NoClients]
    /\ clock = [w \in Worlds |-> InitClock]
    /\ chunks = [w \in Worlds |-> ReadyWorld]
    /\ pc = "idle"
    /\ pending = None
    /\ entry = None
    /\ trace = <<>>

Next ==
    \/ DeliverJoin \/ HandleJoin
    \/ DeliverLeave \/ HandleLeave
    \/ DeliverPeer \/ HandlePeer
    \/ DeliverChat \/ HandleChat
    \/ DeliverGetWorld \/ HandleGetWorld
    \/ SinkCloses
    \/ Return

Spec == Init /\ [][Next]_vars

(* chunk streaming *)

\* longest requested_chunks of a client in the model
MaxQueue == 2

RequestCoords == {<<0, 0>>, <<1, 0>>}

RequestMessage(coords) ==
    [Message("Request") EXCEPT
        !.json = Some([x |-> Some(coords[1]), z |-> Some(coords[2])])]

DeliverRequest ==
    \E id \in Ids : \E coords \in RequestCoords :
        /\ id \in DOMAIN clients["w1"] =>
              Len(clients["w1"][id].requested_chunks) < MaxQueue
        /\ Deliver(PlayerMessage("w1", id, RequestMessage(coords)))

\* two clients that have sent a Peer and were seen by a world tick in chunk
\* (0, 0), with render radius 1 and 0, and one client that has sent no Peer
StreamingClients ==
    [id \in {1, 2, 3} |->
        IF id = 3 THEN Client(None, TRUE, 1)
        ELSE [Client(Some(IF id = 1 THEN "a" ELSE "b"), TRUE, 2 - id)
                 EXCEPT !.current_chunk = Some(<<0, 0>>)]]

StreamingStatuses ==
    {[x \in ChunkXs |-> IF x = 0 THEN "ready" ELSE s] : s \in {"none", "unlit", "ready"}}

InitChunking ==
    /\ clients = [w \in Worlds |-> IF w = "w1" THEN StreamingClients ELSE NoClients]
    /\ clock = [w \in Worlds |-> InitClock]
    /\ \E st \in StreamingStatuses :
         chunks = [w \in Worlds |-> ChunksWith(st, FlatColumn)]
    /\ pc = "idle"
    /\ pending = None
    /\ entry = None
    /\ trace = <<>>

NextChunking == DeliverRequest \/ HandleRequest \/ Chunking \/ SinkCloses \/ Return

\* Request messages and chunking ticks in world w1, while sessions end
SpecChunking == InitChunking /\ [][NextChunking]_vars

NextStreaming == DeliverRequest \/ HandleRequest \/ Chunking \/ Return

\* the interval timer of server.rs 402-404 fires again and again and the
\* actor takes every message of its mailbox and runs its handler to the end
FairStreaming ==
    /\ SF_vars(Chunking)
    /\ WF_vars(HandleRequest)
    /\ WF_vars(Return)

\* one client that has sent a Peer and one that has not
OneStreamingClient == [id \in {1, 3} |-> StreamingClients[id]]

InitStreaming ==
    /\ clients = [w \in Worlds |-> IF w = "w1" THEN OneStreamingClient ELSE NoClients]
    /\ clock = [w \in Worlds |-> InitClock]
    /\ \E st \in StreamingStatuses :
         chunks = [w \in Worlds |-> ChunksWith(st, FlatColumn)]
    /\ pc = "idle"
    /\ pending = None
    /\ entry = None
    /\ trace = <<>>

\* Request messages and chunking ticks in world w1 while every session stays
\* connected, under fair scheduling
SpecStreaming == InitStreaming /\ [][NextStreaming]_vars /\ FairStreaming


(* the world tick over two worlds *)

\* the positions the clients of the model move between: one in each chunk
MoveXs == {0, 1}

MoveMessage(px) ==
    [Message("Peer") EXCEPT !.peers = <<PeerEntry("p", px, 0, 0)>>]

DeliverMove ==
    \E w \in Worlds : \E id \in {1, 2} : \E px \in MoveXs :
        Deliver(PlayerMessage(w, id, MoveMessage(px)))

\* world w1 with a named client and one that has sent no Peer, world w2 with
\* a named client of another render radius
TickClients ==
    [w \in Worlds |->
        IF w = "w1"
        THEN [id \in {1, 2} |-> Client(IF id = 1 THEN Some("a") ELSE None, TRUE, 1)]
        ELSE [id \in {1} |-> Client(Some("b"), TRUE, 2)]]

InitTick ==
    /\ clients = TickClients
    /\ clock = [w \in Worlds |-> InitClock]
    /\ chunks = [w \in Worlds |-> ReadyWorld]
    /\ pc = "idle"
    /\ pending = None
    /\ entry = None
    /\ trace = <<>>

NextTick == DeliverMove \/ HandlePeer \/ Tick \/ Return

\* clients moving between chunks in two worlds, and world ticks
SpecTick == InitTick /\ [][NextTick]_vars

(* the life of the client records under every handler and ticker *)

\* one message for every handler of the hub: a Join and Leaves, from client 1
\* a Peer, a chat line, a Config and an Update, from client 2 a chunk request
LifecycleMessages ==
    {JoinWorld("w1", None, 1)}
    \cup {LeaveWorld("w1", id) : id \in {1, 3}}
    \cup {PlayerMessage("w1", 1, raw) :
            raw \in {MoveMessage(0), ChatMessage(<<"hi">>),
                     [Message("Config") EXCEPT
                         !.json = Some([tickSpeed |-> None, time |-> Some(0)])],
                     [Message("Update") EXCEPT
                         !.updates = <<Update(ChunkSize - 1, 1, 0, Grass)>>]}}
    \cup {PlayerMessage("w1", 2, RequestMessage(<<1, 0>>))}

DeliverLifecycle ==
    \E m \in LifecycleMessages :
        /\ m.kind = "JoinWorld" => Cardinality(DOMAIN clients["w1"]) < MaxClients
        /\ (m.kind = "PlayerMessage" /\ m.raw.type = "Request"
            /\ m.client_id \in DOMAIN clients["w1"]) =>
              Len(clients["w1"][m.client_id].requested_chunks) < MaxQueue
        /\ Deliver(m)

InitLifecycle ==
    /\ clients = [w \in Worlds |-> IF w = "w1" THEN TwoNamedClients ELSE NoClients]
    /\ clock = [w \in Worlds |-> InitClock]
    /\ \E st \in StreamingStatuses \ {[x \in ChunkXs |-> IF x = 0 THEN "ready" ELSE "none"]} :
         chunks = [w \in Worlds |-> ChunksWith(st, FlatColumn)]
    /\ pc = "idle"
    /\ pending = None
    /\ entry = None
    /\ trace = <<>>

NextLifecycle ==
    \/ DeliverLifecycle
    \/ HandleJoin \/ HandleLeave
    \/ HandlePeer \/ HandleChat
    \/ HandleRequest \/ HandleConfig \/ HandleUpdate
    \/ Tick \/ Chunking
    \/ SinkCloses
    \/ Return

\* every handler and both tickers in world w1, while sessions end
SpecLifecycle == InitLifecycle /\ [][NextLifecycle]_vars
----------------------------------------------------------------------------
(* Reading the trace of the handler or ticker that ran last *)

Writes(tr) == SelectSeq(tr, LAMBDA e : e.event = "write")
Broadcasts(tr) == SelectSeq(tr, LAMBDA e : e.event = "broadcast")
Pops(tr) == SelectSeq(tr, LAMBDA e : e.event = "pop")
Loads(tr) == SelectSeq(tr, LAMBDA e : e.event = "broadcast" /\ e.msg.type = "Load")

\* the handler for a PlayerMessage of this type ran last (and returned or panicked)
Handled(type) ==
    /\ pc \in {"returned", "panicked"}
    /\ IsSome(pending)
    /\ Unwrap(pending).kind = "PlayerMessage"
    /\ Unwrap(pending).raw.type = type

Returned(type) == Handled(type) /\ pc = "returned"

\* the handler for a hub message of this kind ran last and returned
ReturnedFrom(kind) ==
    pc = "returned" /\ IsSome(pending) /\ Unwrap(pending).kind = kind

\* the chunks an on_update call recorded in chunk_cache, from its writes
CacheOf(ws) ==
    UNION {{ws[i].chunk}
           \cup get_neighbor_chunk_coords(ws[i].update.vx, ws[i].update.vy, ws[i].update.vz)
           : i \in 1 .. Len(ws)}

----------------------------------------------------------------------------
(* Claims about on_update, checked under SpecUpdate *)

\* C1: the broadcasts of one on_update call are the chunk re-mesh messages, one
\* for each coordinate of the chunk_cache snapshot, followed by the single
\* aggregate Update carrying the results list; the aggregate is never followed
\* by another message of the call.
C1_ChunksBeforeAggregate ==
    Handled("Update") =>
      LET bs == Broadcasts(trace)
          ws == Writes(trace)
      IN  /\ \A i \in 1 .. Len(bs) : IsAggregateMessage(bs[i].msg) => i = Len(bs)
          /\ pc = "returned" =>
               /\ Len(bs) = Cardinality(CacheOf(ws)) + 1
               /\ \A i \in 1 .. Len(bs) - 1 : IsChunkMessage(bs[i].msg)
               /\ {bs[i].msg.chunks[1] : i \in 1 .. Len(bs) - 1} = CacheOf(ws)
               /\ IsAggregateMessage(bs[Len(bs)].msg)
               /\ bs[Len(bs)].msg.updates = [i \in 1 .. Len(ws) |-> ws[i].update]
               /\ trace[Len(trace)] = bs[Len(bs)]

\* a call that sent two chunk messages and then the aggregate to both clients
C1_Witness ==
    /\ Returned("Update")
    /\ Len(Broadcasts(trace)) = 3
    /\ Broadcasts(trace)[3].sent = {1, 2}

\* C2: every voxel write of an on_update call, cascade follow-ups included,
\* has 0 <= vy < max_height and a registered type, and hits a chunk whose
\* needs_propagation is false.
C2_UpdateSafety ==
    Handled("Update") =>
      \A i \in 1 .. Len(Writes(trace)) :
        LET w == Writes(trace)[i]
        IN  /\ w.update.vy >= 0
            /\ w.update.vy < MaxHeight
            /\ has_type(w.update.type)
            /\ ~w.needs_propagation

\* a call with an entry above the ceiling and a cascade that reached the top
C2_Witness ==
    /\ Returned("Update")
    /\ \E i \in 1 .. Len(Unwrap(pending).raw.updates) :
         Unwrap(pending).raw.updates[i].vy >= MaxHeight
    /\ \E i \in 1 .. Len(Writes(trace)) :
         /\ Writes(trace)[i].update.vy = MaxHeight - 1
         /\ Writes(trace)[i].old = Grass
         /\ Writes(trace)[i].update.type = Air

\* the voxel above the one written at position i is written again after the
\* cascade's own write at position i + 1
RewrittenLater(ws, i) ==
    \E j \in i + 2 .. Len(ws) :
        /\ ws[j].update.vx = ws[i].update.vx
        /\ ws[j].update.vy = ws[i].update.vy + 1
        /\ ws[j].update.vz = ws[i].update.vz

\* C8 (as amended): whenever on_update writes a voxel that has a plant directly
\* above it, the next write of the same call turns that plant to air (and so on
\* up the column), the air write is in the results list of the aggregate, and
\* the voxel is air when the call returns unless an entry of the same message
\* that is applied later writes that voxel again.
C8_PlantCascade ==
    Handled("Update") =>
      LET ws == Writes(trace)
          bs == Broadcasts(trace)
          ch == chunks[Unwrap(pending).world_name]
      IN  \A i \in 1 .. Len(ws) :
            is_plant(ws[i].above) =>
              LET u == ws[i].update
              IN  /\ i + 1 <= Len(ws)
                  /\ ws[i + 1].update = Update(u.vx, u.vy + 1, u.vz, Air)
                  /\ pc = "returned" =>
                       /\ Len(bs[Len(bs)].msg.updates) >= i + 1
                       /\ bs[Len(bs)].msg.updates[i + 1] = Update(u.vx, u.vy + 1, u.vz, Air)
                  /\ \/ get_voxel_by_voxel(ch, u.vx, u.vy + 1, u.vz) = Air
                     \/ RewrittenLater(ws, i)

\* a write under two stacked plants: both were turned to air in the call
C8_Witness ==
    /\ Returned("Update")
    /\ \E i \in 1 .. Len(Writes(trace)) - 2 :
         /\ is_plant(Writes(trace)[i].above)
         /\ is_plant(Writes(trace)[i + 1].above)
         /\ Writes(trace)[i + 2].update.type = Air

\* C8 (as stated): every plant of the column above an applied update is air
\* when the call returns.
C8_Original ==
    Returned("Update") =>
      LET ws == Writes(trace)
          ch == chunks[Unwrap(pending).world_name]
      IN  \A i \in 1 .. Len(ws) :
            is_plant(ws[i].above) =>
              get_voxel_by_voxel(ch, ws[i].update.vx, ws[i].update.vy + 1,
                                 ws[i].update.vz) = Air

\* C9: an on_update call in which every entry is rejected writes no voxel and
\* sends no message to any client.
C9_NoBroadcastWhenAllRejected ==
    (Returned("Update") /\ Writes(trace) = <<>>) =>
      \A i \in 1 .. Len(Broadcasts(trace)) : Broadcasts(trace)[i].sent = {}

----------------------------------------------------------------------------
(* Claims about broadcast and Join, checked under Spec *)

\* the last broadcast to world w in bs is at position i
LastIn(bs, i) ==
    \A j \in i + 1 .. Len(bs) : bs[j].world_name # bs[i].world_name

\* C3: in every broadcast, the clients removed are exactly the non-excluded
\* clients whose sink failed; when the broadcast returns they are absent from
\* the table, and the clients that were sent the message or were excluded are
\* still in it.
C3_DeadSinkEviction ==
    (pc \in {"returned", "panicked"}) =>
      LET bs == Broadcasts(trace)
      IN  \A i \in 1 .. Len(bs) :
            LET e == bs[i]
                atEntry == Unwrap(entry).clients[e.world_name]
            IN  /\ e.failed = {id \in e.before : id \notin e.exclude /\ ~atEntry[id].addr}
                /\ e.sent = {id \in e.before : id \notin e.exclude /\ atEntry[id].addr}
                /\ e.after \cap e.failed = {}
                /\ e.sent \cup (e.exclude \cap e.before) \subseteq e.after
                /\ e.after \subseteq e.before
                /\ LastIn(bs, i) => DOMAIN clients[e.world_name] = e.after

\* a broadcast that reached one client and evicted another
C3_Witness ==
    /\ pc = "returned"
    /\ \E i \in 1 .. Len(Broadcasts(trace)) :
         /\ Broadcasts(trace)[i].failed # {}
         /\ Broadcasts(trace)[i].sent # {}

\* C4: Join gives the new client an id that was no key of the world's table
\* before the call, adds exactly that key, and leaves every record that was in
\* the table (and every other world) as it was.
C4_JoinFreshId ==
    ReturnedFrom("JoinWorld") =>
      LET w == Unwrap(pending).world_name
          before == Unwrap(entry).clients
          id == trace[1].id
      IN  /\ id \notin DOMAIN before[w]
          /\ DOMAIN clients[w] = (DOMAIN before[w]) \cup {id}
          /\ Cardinality(DOMAIN clients[w]) = Cardinality(DOMAIN before[w]) + 1
          /\ \A i \in DOMAIN before[w] : clients[w][i] = before[w][i]
          /\ \A v \in Worlds \ {w} : clients[v] = before[v]

\* a Join whose first draw hit an id of the table and was drawn again
C4_Witness ==
    /\ ReturnedFrom("JoinWorld")
    /\ trace[1].draws = 2
    /\ Cardinality(DOMAIN clients[Unwrap(pending).world_name]) = 2

----------------------------------------------------------------------------
(* Claims about on_config, checked under SpecConfig *)

\* C10: on_config sets the clock fields the payload holds (as f32) and keeps
\* the others, and only then sends one Config message with the same JSON to
\* every client of the world, the sender included.
C10_ConfigFanout ==
    Returned("Config") =>
      LET m == Unwrap(pending)
          w == m.world_name
          json == Unwrap(m.raw.json)
          before == Unwrap(entry)
          last == trace[Len(trace)]
      IN  /\ clock[w].time = IF IsSome(json.time) THEN AsF32(Unwrap(json.time))
                             ELSE before.clock[w].time
          /\ clock[w].tick_speed =
               IF IsSome(json.tickSpeed) THEN AsF32(Unwrap(json.tickSpeed))
               ELSE before.clock[w].tick_speed
          /\ \A v \in Worlds \ {w} : clock[v] = before.clock[v]
          /\ Len(Broadcasts(trace)) = 1
          /\ last.event = "broadcast"
          /\ \A i \in 1 .. Len(trace) - 1 :
               /\ trace[i].event = "clock"
               /\ trace[i].field = "time" => trace[i].value = clock[w].time
               /\ trace[i].field = "tick_speed" => trace[i].value = clock[w].tick_speed
          /\ Len(trace) - 1 = (IF IsSome(json.time) THEN 1 ELSE 0)
                              + (IF IsSome(json.tickSpeed) THEN 1 ELSE 0)
          /\ last.msg.type = "Config"
          /\ last.msg.json = m.raw.json
          /\ last.sent \cup last.failed = DOMAIN before.clients[w]
          /\ last.sent = {id \in DOMAIN before.clients[w] : before.clients[w][id].addr}

\* a Config with a time and no tickSpeed, sent by client 1 and received by
\* clients 1 and 2
C10_Witness ==
    /\ Returned("Config")
    /\ Unwrap(pending).client_id = 1
    /\ IsSome(Unwrap(Unwrap(pending).raw.json).time)
    /\ ~IsSome(Unwrap(Unwrap(pending).raw.json).tickSpeed)
    /\ trace[Len(trace)].sent = {1, 2}
    /\ clock["w1"].time = 5

----------------------------------------------------------------------------
(* Claims about the chunking tick, checked under SpecChunking *)

\* the clients whose pop in this tick yielded the coordinate
Requesters(tr, world_name, coords) ==
    {Pops(tr)[i].client_id : i \in {j \in 1 .. Len(Pops(tr)) :
        /\ Pops(tr)[j].world_name = world_name
        /\ Pops(tr)[j].coords = Some(coords)}}

\* C5: a Load emitted for a coordinate popped from a client's queue is
\* delivered to that client only.
C5_LoadOnlyToRequester ==
    ReturnedFrom("ChunkingTick") =>
      \A i \in 1 .. Len(Loads(trace)) :
        LET e == Loads(trace)[i]
        IN  e.sent \subseteq Requesters(trace, e.world_name, e.msg.chunks[1])

\* C6: a coordinate popped from a named client's queue whose chunk is not
\* ready is, after the tick, the last element of that client's queue, behind
\* the entries that were queued behind it, and the tick emits no Load for it
\* (for a client the Loads of the tick did not evict).
C6_NotReadyToTail ==
    ReturnedFrom("ChunkingTick") =>
      \A i \in 1 .. Len(Pops(trace)) :
        LET p == Pops(trace)[i]
            w == p.world_name
            old == Unwrap(entry).clients[w][p.client_id].requested_chunks
        IN  (IsSome(p.coords) /\ chunk_status(chunks[w], Unwrap(p.coords)) # "ready") =>
              /\ p.client_id \in DOMAIN clients[w] =>
                   LET queue == clients[w][p.client_id].requested_chunks
                   IN  /\ queue # <<>>
                       /\ queue[Len(queue)] = Unwrap(p.coords)
                       /\ queue = Tail(old) \o <<Unwrap(p.coords)>>
              /\ \A j \in 1 .. Len(Loads(trace)) :
                   ~(/\ Loads(trace)[j].world_name = w
                     /\ Loads(trace)[j].msg.chunks[1] = Unwrap(p.coords))

\* a tick that moved a not-ready coordinate from the head of a queue of two
\* behind the other entry
C6_Witness ==
    /\ ReturnedFrom("ChunkingTick")
    /\ 1 \in DOMAIN Unwrap(entry).clients["w1"]
    /\ Unwrap(entry).clients["w1"][1].requested_chunks = <<<<1, 0>>, <<0, 0>>>>
    /\ 1 \in DOMAIN clients["w1"]
    /\ clients["w1"][1].requested_chunks = <<<<0, 0>>, <<1, 0>>>>

\* C7: in one chunking tick every named client has at most one coordinate
\* popped and receives at most one Load.
C7_OneLoadPerClientPerTick ==
    ReturnedFrom("ChunkingTick") =>
      \A w \in Worlds : \A c \in NamedClients(Unwrap(entry).clients[w]) :
        /\ Cardinality({i \in 1 .. Len(Pops(trace)) :
              Pops(trace)[i].world_name = w /\ Pops(trace)[i].client_id = c}) <= 1
        /\ Cardinality({i \in 1 .. Len(Loads(trace)) :
              Loads(trace)[i].world_name = w /\ c \in Loads(trace)[i].sent}) <= 1

----------------------------------------------------------------------------
(* Claims about clients without a name, checked under Spec *)

GameplayTypes == {"Update", "Peer", "Message", "Leave"}

\* C11: a client whose name is absent is sent no gameplay broadcast (Update,
\* Peer, chat, join-chat, Leave), nothing is popped from its requested_chunks
\* and its current_chunk is never set.
C11_UnnamedSkipped ==
    (pc \in {"returned", "panicked"}) =>
      /\ \A i \in 1 .. Len(Broadcasts(trace)) :
           LET e == Broadcasts(trace)[i]
           IN  e.msg.type \in GameplayTypes =>
                 \A id \in e.sent :
                     id \in DOMAIN clients[e.world_name]
                     /\ IsNamed(clients[e.world_name][id])
      /\ \A i \in 1 .. Len(Pops(trace)) :
           IsNamed(Unwrap(entry).clients[Pops(trace)[i].world_name][Pops(trace)[i].client_id])
      /\ \A w \in Worlds : \A id \in DOMAIN clients[w] :
           ~IsNamed(clients[w][id]) => clients[w][id].current_chunk = None

----------------------------------------------------------------------------
(* Claims about on_peer, checked under Spec *)

\* the broadcasts of a "<name> joined the game" chat in a trace
JoinChats(tr) ==
    SelectSeq(Broadcasts(tr),
              LAMBDA e : /\ e.msg.type = "Message"
                         /\ IsSome(e.msg.chat)
                         /\ Len(Unwrap(e.msg.chat).body) = 2
                         /\ Unwrap(e.msg.chat).body[2] = " joined the game")

PeerBroadcasts(tr) == SelectSeq(Broadcasts(tr), LAMBDA e : e.msg.type = "Peer")

\* the record of the sender of the message being handled, at handler entry
SenderKnown ==
    /\ Unwrap(pending).world_name \in Worlds
    /\ Unwrap(pending).client_id
         \in DOMAIN Unwrap(entry).clients[Unwrap(pending).world_name]

SenderAtEntry ==
    Unwrap(entry).clients[Unwrap(pending).world_name][Unwrap(pending).client_id]

\* no Peer of the client has been handled: its rotation is still the default
NoPeerYet(client) == client.rotation = <<0, 0, 0, 0>>

\* C12 (as amended): an on_peer from a client whose stored name is absent
\* broadcasts exactly one join-chat, to all clients and before the Peer
\* packet; an on_peer from a client that has a name (from an earlier Peer or
\* from its Join) broadcasts none; every on_peer of a known client rebroadcasts
\* the Peer packet once; no other handler sends a join-chat, and a client that
\* has sent a Peer has a name, so its later Peers cause no join-chat.
C12_JoinChatOnce ==
    (pc \in {"returned", "panicked"}) =>
      /\ (Returned("Peer") /\ SenderKnown) =>
           LET first == ~IsNamed(SenderAtEntry)
               w == Unwrap(pending).world_name
               peer == Unwrap(pending).raw.peers[1]
           IN  /\ Len(JoinChats(trace)) = IF first THEN 1 ELSE 0
               /\ first =>
                    /\ trace[1] = JoinChats(trace)[1]
                    /\ Unwrap(trace[1].msg.chat).body = <<peer.name, " joined the game">>
                    /\ trace[1].exclude = {}
                    /\ trace[1].before = DOMAIN Unwrap(entry).clients[w]
               /\ Len(PeerBroadcasts(trace)) = 1
               /\ trace[Len(trace)].msg.type = "Peer"
      /\ ~(Returned("Peer") /\ SenderKnown) => JoinChats(trace) = <<>>
      /\ \A w \in Worlds : \A id \in DOMAIN clients[w] :
           ~NoPeerYet(clients[w][id]) => IsNamed(clients[w][id])

\* the first Peer of a client that joined without a name: the join-chat went
\* to both clients of the world, the Peer packet to the other one
C12_Witness ==
    /\ Returned("Peer")
    /\ SenderKnown
    /\ ~IsNamed(SenderAtEntry)
    /\ Len(trace) = 2
    /\ Cardinality(trace[1].sent) = 2
    /\ Cardinality(trace[2].sent) = 1

\* C12 (as stated): the first on_peer of every client that has joined causes
\* exactly one join-chat.
C12_Original ==
    (Returned("Peer") /\ SenderKnown /\ NoPeerYet(SenderAtEntry)) =>
        Len(JoinChats(trace)) = 1

----------------------------------------------------------------------------
(* Claims about Leave and about unknown worlds and clients, checked under Spec *)

\* C13: Leave removes the client before anything is sent, so the departing
\* client is never sent its own Leave; a Leave message whose text is the
\* departing id is broadcast to the remaining clients if the removed client
\* existed and had a name, and nothing is sent to anybody otherwise; Leave for
\* an unknown client or world changes no state and sends nothing.
C13_LeaveSemantics ==
    ReturnedFrom("LeaveWorld") =>
      LET m == Unwrap(pending)
          w == m.world_name
          before == Unwrap(entry).clients
          existed == w \in Worlds /\ m.client_id \in DOMAIN before[w]
          named == existed /\ IsNamed(before[w][m.client_id])
          bs == Broadcasts(trace)
      IN  /\ \A i \in 1 .. Len(bs) : m.client_id \notin bs[i].sent
          /\ existed => m.client_id \notin DOMAIN clients[w]
          /\ named =>
               /\ Len(bs) = 1
               /\ bs[1].msg.type = "Leave"
               /\ bs[1].msg.text = ToString(m.client_id)
               /\ bs[1].exclude = {}
               /\ bs[1].before = (DOMAIN before[w]) \ {m.client_id}
          /\ ~named => \A i \in 1 .. Len(bs) : bs[i].sent = {}
          /\ ~existed => clients = before /\ trace = <<>>

\* the request being handled names a world that is not loaded, or is a
\* PlayerMessage from an id that is not in the table of its world
UnknownWorldOrClient ==
    /\ IsSome(pending)
    /\ Unwrap(pending).kind \in {"JoinWorld", "PlayerMessage", "GetWorld"}
    /\ \/ Unwrap(pending).world_name \notin Worlds
       \/ /\ Unwrap(pending).kind = "PlayerMessage"
          /\ Unwrap(pending).client_id
               \notin DOMAIN Unwrap(entry).clients[Unwrap(pending).world_name]

\* C14: a request naming an unknown world or an unknown client is dropped: the
\* handler returns (the server does not stop), no world state has changed and
\* no message was sent.
C14_UnknownDropped ==
    (pc \in {"returned", "panicked"} /\ UnknownWorldOrClient) =>
      /\ pc = "returned"
      /\ clients = Unwrap(entry).clients
      /\ clock = Unwrap(entry).clock
      /\ \A i \in 1 .. Len(Broadcasts(trace)) : Broadcasts(trace)[i].sent = {}

----------------------------------------------------------------------------
(* Claims about chunk requests, checked under SpecChunking *)

Abs(n) == IF n < 0 THEN 0 - n ELSE n

\* the coordinate lies within the client's render radius of its current chunk
WithinRadius(client, coords) ==
    /\ Abs(coords[1] - Unwrap(client.current_chunk)[1]) <= client.render_radius
    /\ Abs(coords[2] - Unwrap(client.current_chunk)[2]) <= client.render_radius

\* C15: every coordinate in a client's requested_chunks lies within that
\* client's render radius of its current_chunk (no client of the model moves,
\* so re-queued entries were within the radius when they were enqueued).
C15_RequestsWithinRadius ==
    \A w \in Worlds : \A id \in DOMAIN clients[w] :
      LET client == clients[w][id]
      IN  IsSome(client.current_chunk) =>
            \A i \in 1 .. Len(client.requested_chunks) :
                WithinRadius(client, client.requested_chunks[i])

----------------------------------------------------------------------------
(* Claims about the clock, checked under SpecConfig *)

\* C16: in every reachable state the clock of every world has tick_speed >= 0.
C16_TickSpeedNonNegative ==
    \A w \in Worlds : clock[w].tick_speed >= 0

----------------------------------------------------------------------------
(* Claims about the world tick, checked under SpecTick *)

Generates(tr) == SelectSeq(tr, LAMBDA e : e.event = "generate")

\* chunk = floor(floor(world * dimension) / chunk_size), from x and z
ChunkOf(position) ==
    <<(position[1] * Dimension) \div ChunkSize,
      (position[3] * Dimension) \div ChunkSize>>

\* the named clients of a table whose chunk differs from their current_chunk
Moved(cl) ==
    {id \in DOMAIN cl :
        /\ IsNamed(cl[id])
        /\ cl[id].current_chunk # Some(ChunkOf(cl[id].position))}

\* C17: in one world tick, every world's Chunks gets a generation request
\* (chunk, render_radius) exactly once for each named client of that world
\* whose chunk changed, and that client's current_chunk becomes the new chunk;
\* no world gets a request for a client of another world, and a client whose
\* chunk did not change causes none.
C17_GenerationPerWorld ==
    ReturnedFrom("WorldTick") =>
      \A w \in Worlds :
        LET before == Unwrap(entry).clients[w]
            request(id) == <<ChunkOf(before[id].position), before[id].render_radius>>
            gs == SelectSeq(Generates(trace), LAMBDA e : e.world_name = w)
        IN  /\ \A id \in DOMAIN before :
                 clients[w][id].current_chunk =
                     IF id \in Moved(before) THEN Some(ChunkOf(before[id].position))
                     ELSE before[id].current_chunk
            /\ Len(gs) = Cardinality(Moved(before))
            /\ \A id \in Moved(before) :
                 Cardinality({i \in 1 .. Len(gs) :
                                 <<gs[i].coords, gs[i].radius>> = request(id)})
                   = Cardinality({j \in Moved(before) : request(j) = request(id)})


----------------------------------------------------------------------------
(* Claims about resource borrows, checked under Spec *)

\* C18: no handle on Clients, Chunks or Clock is held while a message is sent
\* to a client sink: every broadcast that attempts a send (to a client that
\* takes it or to one whose sink fails) runs with nothing borrowed.
C18_NoBorrowWhileSending ==
    (pc \in {"returned", "panicked"}) =>
      \A i \in 1 .. Len(Broadcasts(trace)) :
        LET e == Broadcasts(trace)[i]
        IN  (e.sent \cup e.failed) # {} => e.borrowed = {}

----------------------------------------------------------------------------
(* Claims about the life of a client record, checked under SpecLifecycle *)

\* the ids a Leave being handled removes from the table of world w
LeftBy(m, w) ==
    IF m.kind = "LeaveWorld" /\ m.world_name = w THEN {m.client_id} ELSE {}

\* the ids whose sink failed in a broadcast to world w
FailedIn(tr, w) ==
    UNION {Broadcasts(tr)[i].failed :
             i \in {j \in 1 .. Len(Broadcasts(tr)) : Broadcasts(tr)[j].world_name = w}}

\* C19: a handler or ticker removes a client from a world's table only if it
\* is the Leave for that id or a broadcast to that world failed to send to
\* the client's sink (the client was a target and its sink was closed);
\* everything else leaves the set of ids unchanged, and Join only adds to it.
\* The ids of the table change only across a broadcast or by the Leave: the
\* first broadcast of a call finds the ids of handler entry (less the one
\* that left), each later broadcast finds the ids the one before it kept,
\* and a call that broadcasts nothing (on_chunk_request, the world tick, a
\* chunking tick without a Load) returns with the ids of its entry.
C19_RemovalOnlyByLeaveOrFailure ==
    (pc \in {"returned", "panicked"}) =>
      \A w \in Worlds :
        LET before == Unwrap(entry).clients[w]
            removed == (DOMAIN before) \ (DOMAIN clients[w])
            added == (DOMAIN clients[w]) \ (DOMAIN before)
            m == Unwrap(pending)
        IN  /\ removed \subseteq LeftBy(m, w) \cup FailedIn(trace, w)
            /\ \A i \in 1 .. Len(Broadcasts(trace)) :
                 LET e == Broadcasts(trace)[i]
                 IN  e.world_name = w =>
                       /\ e.failed \cap e.exclude = {}
                       /\ \A id \in e.failed : ~before[id].addr
            /\ added # {} => m.kind = "JoinWorld" /\ m.world_name = w
            /\ m.kind = "JoinWorld" => removed = {}
            /\ LET bw == SelectSeq(Broadcasts(trace), LAMBDA e : e.world_name = w)
               IN  IF bw = <<>>
                   THEN DOMAIN clients[w] = ((DOMAIN before) \ LeftBy(m, w)) \cup added
                   ELSE /\ bw[1].before = (DOMAIN before) \ LeftBy(m, w)
                        /\ \A i \in 1 .. Len(bw) :
                             /\ bw[i].after = bw[i].before \ bw[i].failed
                             /\ i < Len(bw) => bw[i + 1].before = bw[i].after
                        /\ DOMAIN clients[w] = bw[Len(bw)].after

\* a chunking tick in a table that has lost client 1 and gained client 3 by
\* a Join: the pop left the ids alone, and the Load that answered client 2
\* failed to reach client 3, which alone is gone from the table
C19_Witness ==
    /\ ReturnedFrom("ChunkingTick")
    /\ DOMAIN Unwrap(entry).clients["w1"] = {2, 3}
    /\ ~IsNamed(Unwrap(entry).clients["w1"][3])
    /\ Len(Pops(trace)) = 1
    /\ Len(Loads(trace)) = 1
    /\ FailedIn(trace, "w1") = {3}
    /\ DOMAIN clients["w1"] = {2}

----------------------------------------------------------------------------
(* Claims about what on_peer stores and sends, checked under Spec *)

\* the record of a client after a Peer with this first entry
PeerStored(client, peer) ==
    [client EXCEPT !.name = Some(peer.name),
                   !.position = <<peer.px, peer.py, peer.pz>>,
                   !.rotation = <<peer.qx, peer.qy, peer.qz, peer.qw>>]

\* C20: on_peer from a client of the table stores the name, position and
\* rotation of the first peer entry in the sender's record (which stays in
\* the table unless the join-chat found its sink closed), changes no other
\* record, and its last broadcast is the Peer packet itself, excluding the
\* sender and sent to every other client whose sink takes it, never to the
\* sender; on_peer from an id that is not in the table of a loaded world
\* changes no state and sends nothing.
C20_PeerStoredAndRebroadcast ==
    (Handled("Peer") /\ Unwrap(pending).world_name \in Worlds) =>
      LET m == Unwrap(pending)
          w == m.world_name
          id == m.client_id
          before == Unwrap(entry).clients
      IN  IF SenderKnown /\ pc = "returned"
          THEN LET peer == m.raw.peers[1]
                   last == trace[Len(trace)]
               IN  /\ id \in DOMAIN clients[w] =>
                        clients[w][id] = PeerStored(before[w][id], peer)
                   /\ id \notin DOMAIN clients[w] =>
                        ~before[w][id].addr /\ ~IsNamed(before[w][id])
                   /\ \A j \in (DOMAIN clients[w]) \ {id} :
                        j \in DOMAIN before[w] /\ clients[w][j] = before[w][j]
                   /\ \A v \in Worlds \ {w} : clients[v] = before[v]
                   /\ clock = Unwrap(entry).clock
                   /\ last.event = "broadcast"
                   /\ last.msg = m.raw
                   /\ last.exclude = {id}
                   /\ last.sent = {j \in (DOMAIN before[w]) \ {id} : before[w][j].addr}
                   /\ \A i \in 1 .. Len(PeerBroadcasts(trace)) :
                        id \notin PeerBroadcasts(trace)[i].sent
          ELSE ~SenderKnown =>
                 /\ clients = before
                 /\ clock = Unwrap(entry).clock
                 /\ trace = <<>>

\* a Peer of a named client in a world of two: its record holds the entry's
\* position and rotation and the packet went to the other client only
C20_Witness ==
    /\ Returned("Peer")
    /\ SenderKnown
    /\ IsNamed(SenderAtEntry)
    /\ Unwrap(pending).client_id \in DOMAIN clients[Unwrap(pending).world_name]
    /\ clients[Unwrap(pending).world_name][Unwrap(pending).client_id].position = <<1, 2, 3>>
    /\ clients[Unwrap(pending).world_name][Unwrap(pending).client_id].rotation = <<1, 2, 3, 4>>
    /\ Len(trace) = 1
    /\ Cardinality(trace[1].sent) = 1
    /\ Cardinality(trace[1].before) = 2

----------------------------------------------------------------------------
(* Claims about the stack of on_update, checked under SpecUpdate *)

\* the entries on_update popped, in the order it popped them
Popped(tr) == SelectSeq(tr, LAMBDA e : e.event \in {"write", "skip"})

\* the entry popped at position k was pushed by the plant cascade of the
\* write before it
IsCascade(ps, k) ==
    /\ k > 1
    /\ ps[k - 1].event = "write"
    /\ is_plant(ps[k - 1].above)

\* the positions of ps that hold entries of the message, in popping order
RECURSIVE InputPositions(_, _)
InputPositions(ps, k) ==
    IF k > Len(ps) THEN <<>>
    ELSE (IF IsCascade(ps, k) THEN <<>> ELSE <<k>>) \o InputPositions(ps, k + 1)

\* the reasons of section 4.2.1 step 2 for rejecting an entry, from what the
\* trace recorded when the entry was popped
RejectedEntry(e) ==
    \/ e.update.vy < 0
    \/ e.update.vy >= MaxHeight
    \/ e.update.type \notin RegisteredTypes
    \/ e.needs_propagation
    \/ (e.old = Air /\ e.update.type = Air)

\* the value the trace recorded for the voxel of the entry at position k is
\* the type of the last write to that voxel before it, if there is one
OldFromWrites(ps, k) ==
    \A j \in 1 .. k - 1 :
        (/\ ps[j].event = "write"
         /\ ps[j].update.vx = ps[k].update.vx
         /\ ps[j].update.vy = ps[k].update.vy
         /\ ps[j].update.vz = ps[k].update.vz
         /\ \A i \in j + 1 .. k - 1 :
                ps[i].event = "write" =>
                    \/ ps[i].update.vx # ps[k].update.vx
                    \/ ps[i].update.vy # ps[k].update.vy
                    \/ ps[i].update.vz # ps[k].update.vz)
        => ps[k].old = ps[j].update.type

\* C21: in an on_update call every entry of the message is popped, whatever
\* was rejected before it; an entry is dropped only for one of the reasons of
\* rejection and every other entry is written; the updates list of the
\* aggregate is exactly the written entries (accepted entries of the message
\* and cascade air updates) and holds no rejected entry.
C21_RejectedDoNotAbort ==
    Handled("Update") =>
      LET ps == Popped(trace)
          ins == Unwrap(pending).raw.updates
          bs == Broadcasts(trace)
      IN  /\ \A k \in 1 .. Len(ps) :
               /\ (ps[k].event = "skip") = RejectedEntry(ps[k])
               /\ OldFromWrites(ps, k)
               /\ IsCascade(ps, k) =>
                    ps[k].update = Update(ps[k - 1].update.vx, ps[k - 1].update.vy + 1,
                                          ps[k - 1].update.vz, Air)
          /\ pc = "returned" =>
               LET at == InputPositions(ps, 1)
                   results == bs[Len(bs)].msg.updates
               IN  /\ Len(at) = Len(ins)
                   /\ \A i \in 1 .. Len(ins) :
                        \E k \in 1 .. Len(at) :
                            /\ ps[at[k]].update = ins[i]
                            /\ Cardinality({j \in 1 .. Len(at) : ps[at[j]].update = ins[i]})
                                 = Cardinality({j \in 1 .. Len(ins) : ins[j] = ins[i]})
                   /\ results = [k \in 1 .. Len(Writes(trace)) |-> Writes(trace)[k].update]
                   /\ \A k \in 1 .. Len(Writes(trace)) : ~RejectedEntry(Writes(trace)[k])

\* a message whose last entry is below the floor and whose first entry is
\* acceptable: the first was dropped, the second written and echoed alone
C21_Witness ==
    /\ Returned("Update")
    /\ Len(Unwrap(pending).raw.updates) = 2
    /\ Len(Popped(trace)) = 2
    /\ Popped(trace)[1].event = "skip"
    /\ Popped(trace)[1].update.vy < 0
    /\ Popped(trace)[2].event = "write"
    /\ Broadcasts(trace)[Len(Broadcasts(trace))].msg.updates
         = <<Unwrap(pending).raw.updates[1]>>

----------------------------------------------------------------------------
(* Claims about the order of on_update, checked under SpecStack *)

Reverse(s) == [i \in 1 .. Len(s) |-> s[Len(s) + 1 - i]]

SameVoxel(u, v) == u.vx = v.vx /\ u.vy = v.vy /\ u.vz = v.vz

\* the position in ps of the last write to the voxel of u, or 0
LastWriteTo(ps, u) ==
    LET at == {k \in 1 .. Len(ps) : ps[k].event = "write" /\ SameVoxel(ps[k].update, u)}
    IN  IF at = {} THEN 0 ELSE CHOOSE k \in at : \A j \in at : j <= k

\* the positions in ps where an entry of the message was written to the
\* voxel of u
InputWritesTo(ps, u) ==
    {k \in 1 .. Len(ps) :
        /\ ps[k].event = "write"
        /\ ~IsCascade(ps, k)
        /\ SameVoxel(ps[k].update, u)}

\* C22 (as amended): on_update pops the entries of a message from the last
\* listed to the first; the cascade air update pushed by a write is popped
\* right after it, before any earlier-listed entry; the results list is the
\* written entries in that order; every written voxel ends with the type of
\* the last write to it, so when a message holds two or more accepted updates
\* for one voxel the voxel ends with the type of the one listed first, unless
\* the cascade of an entry listed still earlier turns that voxel to air
\* afterwards.
C22_LastInFirstOut ==
    Returned("Update") =>
      LET ps == Popped(trace)
          ins == Unwrap(pending).raw.updates
          at == InputPositions(ps, 1)
          bs == Broadcasts(trace)
          ch == chunks[Unwrap(pending).world_name]
          final(u) == get_voxel_by_voxel(ch, u.vx, u.vy, u.vz)
      IN  /\ [k \in 1 .. Len(at) |-> ps[at[k]].update] = Reverse(ins)
          /\ \A k \in 1 .. Len(ps) :
               (ps[k].event = "write" /\ is_plant(ps[k].above)) =>
                 /\ k < Len(ps)
                 /\ ps[k + 1].update = Update(ps[k].update.vx, ps[k].update.vy + 1,
                                              ps[k].update.vz, Air)
          /\ bs[Len(bs)].msg.updates
               = [k \in 1 .. Len(Writes(trace)) |-> Writes(trace)[k].update]
          /\ \A k \in 1 .. Len(ps) :
               LET u == ps[k].update
               IN  /\ LastWriteTo(ps, u) # 0 => final(u) = ps[LastWriteTo(ps, u)].update.type
                   /\ (Cardinality(InputWritesTo(ps, u)) >= 2
                       /\ LastWriteTo(ps, u) \in InputWritesTo(ps, u)) =>
                        /\ \A j \in InputWritesTo(ps, u) : j <= LastWriteTo(ps, u)
                        /\ \E i \in 1 .. Len(ins) :
                             /\ SameVoxel(ins[i], u)
                             /\ final(u) = ins[i].type
                             /\ at[Len(ins) + 1 - i] = LastWriteTo(ps, u)
                             /\ \A j \in 1 .. i - 1 :
                                  SameVoxel(ins[j], u) => ps[at[Len(ins) + 1 - j]].event = "skip"

\* a message of two accepted updates for one voxel under a plant: the entry
\* listed last was written first, then its cascade, then the entry listed
\* first, whose type the voxel holds at the end
C22_Witness ==
    /\ Returned("Update")
    /\ Len(Unwrap(pending).raw.updates) = 2
    /\ Len(Writes(trace)) = 3
    /\ Writes(trace)[1].update = Unwrap(pending).raw.updates[2]
    /\ Writes(trace)[2].update.vy = Writes(trace)[1].update.vy + 1
    /\ Writes(trace)[3].update = Unwrap(pending).raw.updates[1]
    /\ SameVoxel(Writes(trace)[1].update, Writes(trace)[3].update)
    /\ Writes(trace)[1].update.type # Writes(trace)[3].update.type
    /\ get_voxel_by_voxel(chunks[Unwrap(pending).world_name],
                          Writes(trace)[3].update.vx, Writes(trace)[3].update.vy,
                          Writes(trace)[3].update.vz)
         = Unwrap(pending).raw.updates[1].type

\* C22 (as stated): when one message holds two accepted updates for the same
\* voxel, the voxel's final value is the type of the one listed first.
C22_Original ==
    Returned("Update") =>
      LET ps == Popped(trace)
          ins == Unwrap(pending).raw.updates
          at == InputPositions(ps, 1)
          ch == chunks[Unwrap(pending).world_name]
          accepted(i) == ps[at[Len(ins) + 1 - i]].event = "write"
      IN  \A i \in 1 .. Len(ins) : \A j \in i + 1 .. Len(ins) :
            (/\ SameVoxel(ins[i], ins[j])
             /\ accepted(i)
             /\ accepted(j)
             /\ \A h \in 1 .. i - 1 : SameVoxel(ins[h], ins[i]) => ~accepted(h))
            => get_voxel_by_voxel(ch, ins[i].vx, ins[i].vy, ins[i].vz) = ins[i].type

----------------------------------------------------------------------------
(* Claims about the conservation of chunk requests, checked under SpecChunking *)

Requeues(tr) == SelectSeq(tr, LAMBDA e : e.event = "requeue")
Enqueues(tr) == SelectSeq(tr, LAMBDA e : e.event = "enqueue")

\* the pop of the tick took a coordinate that was not put back
Answered(tr, p) ==
    /\ IsSome(p.coords)
    /\ \A i \in 1 .. Len(Requeues(tr)) :
         ~(/\ Requeues(tr)[i].world_name = p.world_name
           /\ Requeues(tr)[i].client_id = p.client_id)

\* the pops of a tick that must be answered with a Load, in popping order
AnsweredPops(tr) == SelectSeq(Pops(tr), LAMBDA p : Answered(tr, p))

\* the number of entries of a sequence of events that belong to a client
CountFor(es, w, id) ==
    Cardinality({i \in 1 .. Len(es) : es[i].world_name = w /\ es[i].client_id = id})

\* C23: every step conserves the chunk requests of a client that stays in the
\* table.  on_chunk_request from a client of the table appends one coordinate
\* to its queue.  A chunking tick pops at most one coordinate of each named
\* client and, for each popped coordinate, either puts it back in the queue or
\* emits exactly one Load for it, so the queue shrinks by the number of Loads
\* emitted for the client; the Loads of the tick are, in order, the popped
\* coordinates that were not put back.  Nothing else changes a queue.  Hence
\* the coordinates a client enqueued are those still in its queue plus those
\* a Load was emitted for.
C23_RequestsConserved ==
    (pc \in {"returned", "panicked"}) =>
      LET m == Unwrap(pending)
          before == Unwrap(entry).clients
          stays == {v \in Worlds \X Ids :
                      v[2] \in DOMAIN before[v[1]] /\ v[2] \in DOMAIN clients[v[1]]}
          queue(v) == clients[v[1]][v[2]].requested_chunks
          old(v) == before[v[1]][v[2]].requested_chunks
      IN  IF ReturnedFrom("ChunkingTick")
          THEN LET ps == Pops(trace)
                   as == AnsweredPops(trace)
                   rs == Requeues(trace)
                   ls == Loads(trace)
               IN  /\ Len(ls) = Len(as)
                   /\ \A k \in 1 .. Len(as) :
                        /\ ls[k].world_name = as[k].world_name
                        /\ ls[k].msg.chunks = <<Unwrap(as[k].coords)>>
                   /\ \A i \in 1 .. Len(rs) :
                        \E k \in 1 .. Len(ps) :
                            /\ ps[k].world_name = rs[i].world_name
                            /\ ps[k].client_id = rs[i].client_id
                            /\ ps[k].coords = Some(rs[i].coords)
                   /\ \A v \in stays :
                        LET popped == CountFor(SelectSeq(ps, LAMBDA p : IsSome(p.coords)),
                                               v[1], v[2])
                            requeued == CountFor(rs, v[1], v[2])
                            loaded == CountFor(as, v[1], v[2])
                        IN  /\ CountFor(ps, v[1], v[2]) <= 1
                            /\ popped = requeued + loaded
                            /\ popped = (IF IsNamed(before[v[1]][v[2]]) /\ old(v) # <<>>
                                         THEN 1 ELSE 0)
                            /\ Len(old(v)) = Len(queue(v)) + loaded
                            /\ queue(v) = (IF popped = 1 THEN Tail(old(v)) ELSE old(v))
                                          \o (IF requeued = 1 THEN <<Head(old(v))>> ELSE <<>>)
          ELSE IF Returned("Request") /\ SenderKnown
          THEN /\ Len(Enqueues(trace)) = 1
               /\ \A v \in stays :
                    queue(v) = IF v = <<m.world_name, m.client_id>>
                               THEN Append(old(v), Enqueues(trace)[1].coords)
                               ELSE old(v)
          ELSE /\ Enqueues(trace) = <<>>
               /\ \A v \in stays : queue(v) = old(v)

\* a tick that popped the heads of two queues: one coordinate was answered
\* with a Load, the other was put back, both clients are still in the table
C23_Witness ==
    /\ ReturnedFrom("ChunkingTick")
    /\ Len(Pops(trace)) = 2
    /\ Len(AnsweredPops(trace)) = 1
    /\ Len(Requeues(trace)) = 1
    /\ Len(Loads(trace)) = 1
    /\ {1, 2} \subseteq DOMAIN clients["w1"]
    /\ Len(Unwrap(entry).clients["w1"][AnsweredPops(trace)[1].client_id].requested_chunks) = 2
    /\ Len(clients["w1"][AnsweredPops(trace)[1].client_id].requested_chunks) = 1

----------------------------------------------------------------------------
(* Claims about the progress of chunk streaming, checked under SpecStreaming *)

\* the coordinate is in the queue of the client of world w1
Requested(id, coords) ==
    /\ id \in DOMAIN clients["w1"]
    /\ \E i \in 1 .. Len(clients["w1"][id].requested_chunks) :
         clients["w1"][id].requested_chunks[i] = coords

\* a chunking tick has just answered the coordinate, popped from the queue
\* of the client, with a Load
LoadedFor(id, coords) ==
    /\ ReturnedFrom("ChunkingTick")
    /\ \E k \in 1 .. Len(AnsweredPops(trace)) :
         /\ AnsweredPops(trace)[k].world_name = "w1"
         /\ AnsweredPops(trace)[k].client_id = id
         /\ AnsweredPops(trace)[k].coords = Some(coords)
         /\ k <= Len(Loads(trace))
         /\ Loads(trace)[k].msg.chunks = <<coords>>

\* C24: under fair scheduling of the chunking tick, a coordinate in the queue
\* of a named client that stays connected, whose chunk is ready, is
\* eventually answered with a Load, whatever else is in the queue: a
\* coordinate that is never ready moves from the head to the tail and does
\* not hold back the entries behind it.
C24_ReadyRequestEventuallyLoaded ==
    \A coords \in RequestCoords :
        (Requested(1, coords) /\ chunk_status(chunks["w1"], coords) = "ready")
            ~> LoadedFor(1, coords)

\* a tick answered a client's ready coordinate while a coordinate whose chunk
\* is not ready, popped and put back by an earlier tick, waits in the same
\* queue
C24_Witness ==
    /\ LoadedFor(1, <<0, 0>>)
    /\ chunk_status(chunks["w1"], <<1, 0>>) # "ready"
    /\ Unwrap(entry).clients["w1"][1].requested_chunks = <<<<0, 0>>, <<1, 0>>>>
    /\ clients["w1"][1].requested_chunks = <<<<1, 0>>>>
====
